---------------------------- MODULE Spec2Model ----------------------------
(***************************************************************************)
(* A model of the EA Desktop integration plugin:                           *)
(*   - the authenticated HTTP client of src/src/backend.py                 *)
(*     (AuthenticatedHttpClient: authenticate, get, token refresh),        *)
(*   - the offer cache and the play-time cache of src/src/plugin.py,       *)
(*   - the local-games diff of src/src/local_games.py.                     *)
(*                                                                         *)
(* Conventions.  A Python Optional is a sequence of length 0 or 1: Nil is  *)
(* None and Some(x) is the value x.  A string the code splits is the       *)
(* sequence of its words and delimiters, so that str.split, the `in'       *)
(* substring test and indexing are computed as the code computes them.     *)
(***************************************************************************)
EXTENDS Integers, Sequences, FiniteSets, TLC

VARIABLES
    \* ---- AuthenticatedHttpClient (backend.py:49-150) ----
    access_token,               \* _access_token: Nil or Some(token text)
    cookie_jar,                 \* _cookie_jar: cookie name -> cookie value
    stored_cookies,             \* what the cookies-updated callback stored last
    auth_lost_callback,         \* _auth_lost_callback is set
    cookies_updated_callback,   \* CookieJar._cookies_updated_callback is set
    save_lats_callback,         \* _save_lats_callback is set
    last_access_token_success,  \* _last_access_token_success: Nil or Some(time)
    persistent_lats,            \* persistent_cache['lats']: Nil or Some(time)
    now,                        \* time.time()
    \* ---- the calls in flight on the event loop, one per caller ----
    pc,                         \* where each caller's coroutine is suspended
    op,                         \* the call: its name, argument, state at entry
    trace,                      \* what the call did so far, in order
    result,                     \* how the call ended: "ok" or the exception
    response,                   \* the token endpoint's answer to this call
    \* ---- OriginPlugin, the offer cache (plugin.py:99-101, 195-229) ----
    offer_id_cache,             \* persistent_cache["offers"]: offer id -> offer
    offers_call,                \* the _get_offers call in flight
    \* ---- OriginPlugin, the play-time cache (plugin.py:95-97, 378-443) ----
    game_time_cache,            \* persistent_cache["game_time"]: game id -> GameTime
    persistent_cache_updated,   \* _persistent_cache_updated
    game_time_call,             \* the _get_game_times_for_master_title call in flight
    \* ---- get_state_changes (local_games.py:162-176) ----
    old_list,                   \* its first argument
    new_list,                   \* its second argument
    changes,                    \* Nil, or Some(the list it returned)
    \* ---- OriginPlugin, the local-games passes (plugin.py:91-93, 296-333) ----
    local_games_update_in_progress, \* _local_games_update_in_progress
    local_games_last_update,    \* _local_games_last_update
    wall_clock,                 \* time.time(), less the time of the start
    passes,                     \* the LocalGames.update passes, in order of launch
    call_log,                   \* the calls of tick and get_local_games so far
    \* ---- get_game_id and _offer_id_from_game_id (plugin.py:139-141, 232-240) ----
    entitlement,                \* one item of the owned game products
    game_id,                    \* Nil, or Some(get_game_id(entitlement))
    offer_id_back,              \* Nil, or Some(_offer_id_from_game_id(game_id))
    \* ---- OriginBackendClient.get_achievements (backend.py:209-245) ----
    ach_response,               \* json["data"]["achievements"] of the response
    ach_result,                 \* Nil, or Some(what get_achievements gave)
    \* ---- LocalGames (local_games.py:129-160, 213-250) ----
    is_json,                    \* whether is.json exists in the temp directory
    is_with_offer_json,         \* is_with_offer.json: "absent", "unparsable" or "ok"
    install_infos,              \* installInfos of is_with_offer.json, once readable
    running_processes,          \* the image paths of the running processes
    local_games_object,         \* the LocalGames instance of the plugin
    local_games_last,           \* the last call on it and how it ended
    \* ---- the persistent cache across a restart (plugin.py:95-101, 544-573, 614-615) ----
    galaxy_store,               \* what the host holds of the pushed cache, Nil at first
    reloaded,                   \* Nil, or Some(the caches the next start decoded)
    \* ---- OriginBackendClient, the parsing of a response (backend.py:182-191, 261-305) ----
    backend_response,           \* the body of the response the call got
    backend_result,             \* Nil, or Some(how the call ended)
    \* ---- OriginPlugin.prepare_achievements_context (plugin.py:160-178) ----
    context_batch,              \* how the backend answers for each game of game_ids
    context_result,             \* Nil, or Some(how the call ended)
    \* ---- one local-games pass and what it tells the host (plugin.py:296-321) ----
    pass_origin,                \* what started the pass: "tick" or "get_local_games"
    pass_result,                \* Nil, or Some(what the pass returned and notified)
    times_batch,                \* the game ids prepare_game_times_context is called with
    times_context,              \* Nil, or Some(what prepare_game_times_context raised and returned)
    game_time_lookup,           \* per game of the batch, what get_game_time found in the offer cache
    settings_game_id,           \* the game id get_game_library_settings is called with, by character
    settings_context,           \* GameLibrarySettingsContext: the favorite and the hidden offer ids
    settings_result             \* Nil, or Some(the GameLibrarySettings returned)

httpVars == <<access_token, cookie_jar, stored_cookies, auth_lost_callback,
              cookies_updated_callback, save_lats_callback,
              last_access_token_success, persistent_lats, now>>
callVars == <<pc, op, trace, result, response>>
offerVars == <<offer_id_cache, offers_call>>
gameTimeVars == <<game_time_cache, persistent_cache_updated, game_time_call>>
diffVars == <<old_list, new_list, changes>>
schedVars == <<local_games_update_in_progress, local_games_last_update,
               wall_clock, passes, call_log>>
gameIdVars == <<entitlement, game_id, offer_id_back>>
achievementVars == <<ach_response, ach_result>>
localVars == <<is_json, is_with_offer_json, install_infos, running_processes,
               local_games_object, local_games_last>>
persistVars == <<galaxy_store, reloaded>>
backendVars == <<backend_response, backend_result>>
contextVars == <<context_batch, context_result>>
notifyVars == <<pass_origin, pass_result>>
timesVars == <<times_batch, times_context, game_time_lookup>>
settingsVars == <<settings_game_id, settings_context, settings_result>>
vars == <<httpVars, callVars, offerVars, gameTimeVars, diffVars, schedVars,
          gameIdVars,
          achievementVars,
          localVars,
          persistVars,
          backendVars,
          contextVars,
          notifyVars,
          timesVars,
          settingsVars>>

-----------------------------------------------------------------------------
(* Optional values *)
Nil == <<>>
Some(x) == <<x>>

(* The bound of the clock. *)
MaxTime == 1

(* The longest list of offer ids handed to _get_offers. *)
MaxOffers == 2

(* The latest last-played timestamp. *)
MaxStamp == 2

(* The longest list of local games handed to get_state_changes. *)
MaxGames == 2

(* The number of calls of tick and get_local_games. *)
MaxCalls == 3

(* The number of parts of an offer id. *)
MaxIdParts == 2

(* The number of entries of an achievement set. *)
MaxAchievements == 2

(* The longest list of games handed to prepare_achievements_context. *)
MaxBatch == 2

(* The longest play time the backend reports, in seconds. *)
MaxSeconds == 150

(* The number of entries of the install manifest. *)
MaxEntries == 1

(* The callers whose calls the sequential specification runs. *)
Callers == {"c1"}

-----------------------------------------------------------------------------
(* Strings as sequences of words.                                          *)

\* str.split(d): n occurrences of d give n+1 parts, empty parts included.
RECURSIVE Split(_, _)
Split(s, d) ==
    IF \A i \in DOMAIN s : s[i] # d
    THEN <<s>>
    ELSE LET i == CHOOSE k \in DOMAIN s : s[k] = d /\ \A j \in 1..(k-1) : s[j] # d
         IN  <<SubSeq(s, 1, i-1)>> \o Split(SubSeq(s, i+1, Len(s)), d)

\* `w in s' for a one-word needle.
Contains(s, w) == \E i \in DOMAIN s : s[i] = w

\* `"k=v" in s'.
ContainsPair(s, k, v) ==
    \E i \in 1..(Len(s)-2) : s[i] = k /\ s[i+1] = "=" /\ s[i+2] = v

-----------------------------------------------------------------------------
(* The inputs.                                                             *)

\* The exceptions galaxy.http's request raises (backend.py:11-14 imports them).
RequestErrors ==
    {"AuthenticationRequired", "AccessDenied", "BackendNotAvailable",
     "BackendTimeout", "BackendError", "NetworkError", "TooManyRequests",
     "UnknownError"}

\* What an authorized GET can end with.
GetOutcomes == {"ok"} \cup RequestErrors

\* Location headers of the token endpoint's redirect.
LocTok1 == <<"qrc:/html/login_successful.html", "#", "access_token", "=", "TOK1",
             "&", "token_type", "=", "Bearer">>
LocTok2 == <<"qrc:/html/login_successful.html", "#", "access_token", "=", "TOK2">>
LocEmptyTok == <<"qrc:/html/login_successful.html", "#", "access_token", "=",
                 "&", "token_type", "=", "Bearer">>
LocTokSecond == <<"qrc:/html/login_successful.html", "#", "token_type", "=",
                  "Bearer", "&", "access_token", "=", "TOK1">>
LocLoginRequired == <<"https://signin.ea.com/p/juno/login", "?", "error", "=",
                      "login_required">>
LocNeither == <<"https://accounts.ea.com/connect/auth", "?", "state", "=", "probe">>
LocQueryTok == <<"https://www.ea.com/ea-play", "?", "access_token", "=", "TOK1">>

Locations == {LocTok1, LocTok2, LocEmptyTok, LocTokSecond, LocLoginRequired,
              LocNeither, LocQueryTok}

\* What the token request can end with: an exception of the transport, a
\* response without a Location header, or a response with one.
TokenResponses ==
    [kind : {"error"}, exc : RequestErrors, location : {Nil}]
    \cup [kind : {"response"}, exc : {"none"}, location : {Nil}]
    \cup [kind : {"response"}, exc : {"none"}, location : {Some(l) : l \in Locations}]

NoResponse == [kind |-> "none", exc |-> "none", location |-> Nil]

\* Cookie values: "_st:1700$ses_id:1701" is <<<<"_st","1700">>, <<"ses_id","1701">>>>.
UtagGood == <<<<"_st", "1700000000000">>, <<"ses_id", "1700000000001">>>>
UtagNoColon == <<<<"v1">>>>
UtagNoSession == <<<<"_st", "1700000000000">>, <<"_sn", "3">>>>
SidValue == <<<<"abc">>>>

EmptyJar == [n \in {} |-> Nil]

\* The cookie dicts handed to authenticate.
CookieSets ==
    { EmptyJar,
      [n \in {"sid"} |-> SidValue],
      [n \in {"sid", "utag_main"} |-> IF n = "sid" THEN SidValue ELSE UtagGood],
      [n \in {"utag_main"} |-> UtagNoColon],
      [n \in {"utag_main"} |-> UtagNoSession] }


-----------------------------------------------------------------------------
(* AuthenticatedHttpClient, backend.py:49-150.                             *)

\* An entry of a call's trace: what was done, and with which token.
Ev(name) == <<name, Nil>>
EvGet(tok) == <<"authorized_get", tok>>
Names(tr) == [i \in DOMAIN tr |-> tr[i][1]]
Count(tr, name) == Cardinality({i \in DOMAIN tr : tr[i][1] = name})

\* `not self._access_token' (backend.py:72): None and the empty string.
Falsy(tok) == tok = Nil \/ tok[1] = <<>>

\* is_authenticated (backend.py:68-69).
is_authenticated == access_token # Nil

\* An update that keeps the new cookies alone.
MergeCookiesDeltaOnly(jar, cookies) == cookies

\* CookieJar.update_cookies (backend.py:43-46): the cookies are merged into the
\* jar by name; the callback gets the whole jar, when `cookies' is not empty.
MergeCookies(jar, cookies) ==
    [n \in DOMAIN jar \cup DOMAIN cookies |->
        IF n \in DOMAIN cookies THEN cookies[n] ELSE jar[n]]

CallbackFires(cookies) == DOMAIN cookies # {} /\ cookies_updated_callback

\* A _log_session_details without its try/except: a failure propagates.
LogSessionDetailsUncaught(jar) ==
    IF "utag_main" \notin DOMAIN jar
    THEN [raised |-> "StopIteration", events |-> <<>>]
    ELSE LET v == jar["utag_main"]
         IN  IF \E i \in DOMAIN v : Len(v[i]) < 2
             THEN [raised |-> "IndexError", events |-> <<>>]
             ELSE IF {"_st", "ses_id"} \subseteq {v[i][1] : i \in DOMAIN v}
                  THEN [raised |-> "none", events |-> <<Ev("log_info_session")>>]
                  ELSE [raised |-> "KeyError", events |-> <<>>]

\* _log_session_details (backend.py:139-150): the snapshot is logged when the
\* utag_main cookie exists, each of its `$' parts has a `:', and the parts
\* name _st and ses_id; any failure is logged as a warning instead.
\* What it raises is "none": `except Exception' catches every failure.
LogSessionDetails(jar) ==
    LET failed == [raised |-> "none", events |-> <<Ev("log_warning_session")>>]
    IN  IF "utag_main" \notin DOMAIN jar
        THEN failed
        ELSE LET v == jar["utag_main"]
             IN  IF \E i \in DOMAIN v : Len(v[i]) < 2
                 THEN failed
                 ELSE IF {"_st", "ses_id"} \subseteq {v[i][1] : i \in DOMAIN v}
                      THEN [raised |-> "none", events |-> <<Ev("log_info_session")>>]
                      ELSE failed

\* A token parser that takes an empty value for no token.
ParseTokenNoneOnEmpty(loc) ==
    LET parts == Split(loc, "#")
    IN  IF Len(parts) < 2 THEN [raised |-> "IndexError", token |-> Nil]
        ELSE LET kv == Split(parts[2], "=")
             IN  IF Len(kv) < 2 THEN [raised |-> "IndexError", token |-> Nil]
                 ELSE IF Split(kv[2], "&")[1] = <<>>
                      THEN [raised |-> "none", token |-> Nil]
                      ELSE [raised |-> "none", token |-> Some(Split(kv[2], "&")[1])]

\* The token of a Location that holds "access_token" (backend.py:116-119):
\* data.split("#")[1].split("=")[1].split("&")[0], or IndexError.
ParseToken(loc) ==
    LET parts == Split(loc, "#")
    IN  IF Len(parts) < 2 THEN [raised |-> "IndexError", token |-> Nil]
        ELSE LET kv == Split(parts[2], "=")
             IN  IF Len(kv) < 2 THEN [raised |-> "IndexError", token |-> Nil]
                 ELSE [raised |-> "none", token |-> Some(Split(kv[2], "&")[1])]

\* _get_access_token (backend.py:103-124) from the answer of its request on:
\* the exception raised ("none" when it returns), the token, the timestamp
\* and what was logged.  _save_lats (backend.py:128-131) is the last branch.
GetAccessToken(resp) ==
    LET same == [raised |-> "none", token |-> access_token,
                 lats |-> last_access_token_success, plats |-> persistent_lats,
                 events |-> <<>>]
    IN  IF resp.kind = "error" THEN [same EXCEPT !.raised = resp.exc]
        ELSE IF resp.location = Nil THEN [same EXCEPT !.raised = "KeyError"]
        ELSE LET loc == resp.location[1]
             IN  IF Contains(loc, "access_token")
                 THEN LET p == ParseToken(loc)
                      IN  IF p.raised # "none"
                          THEN [same EXCEPT !.raised = p.raised]
                          ELSE [same EXCEPT !.token = p.token]
                 ELSE IF ContainsPair(loc, "error", "login_required")
                 THEN LET l == LogSessionDetails(cookie_jar)
                      IN  [same EXCEPT !.raised = IF l.raised # "none" THEN l.raised
                                                  ELSE "AuthenticationRequired",
                                       !.events = l.events]
                 ELSE IF save_lats_callback
                      THEN [same EXCEPT !.lats = Some(now), !.plats = Some(now),
                                        !.events = <<Ev("save_lats")>>]
                      ELSE same

\* Two other `except' lists for _refresh_token: one more class, one only.
RefreshReraisedWide ==
    {"BackendNotAvailable", "BackendTimeout", "BackendError", "NetworkError",
     "TooManyRequests"}
RefreshReraisedNarrow == {"BackendError"}

\* The exceptions _refresh_token re-raises as they are (backend.py:93).
RefreshReraised ==
    {"BackendNotAvailable", "BackendTimeout", "BackendError", "NetworkError"}

\* The exceptions get answers with a refresh and a retry (backend.py:77).
RetriedErrors == {"AuthenticationRequired", "AccessDenied"}

NoOp == [name |-> "none", cookies |-> EmptyJar, token0 |-> Nil,
         jar0 |-> EmptyJar, first |-> "none", refresh |-> "none",
         retry |-> "none"]

\* authenticate (backend.py:64-66), up to the await of the token request.
AuthenticateCall(c, cookies) ==
    /\ pc[c] = "idle"
    /\ cookie_jar' = MergeCookies(cookie_jar, cookies)
    /\ stored_cookies' = IF CallbackFires(cookies) THEN Some(cookie_jar')
                         ELSE stored_cookies
    /\ op' = [op EXCEPT ![c] = [NoOp EXCEPT !.name = "authenticate",
                                            !.cookies = cookies,
                                            !.token0 = access_token,
                                            !.jar0 = cookie_jar]]
    /\ trace' = [trace EXCEPT ![c] =
                    <<Ev("update_cookies")>>
                    \o (IF CallbackFires(cookies) THEN <<Ev("cookies_updated")>> ELSE <<>>)
                    \o <<Ev("token_request")>>]
    /\ pc' = [pc EXCEPT ![c] = "authenticate_token"]
    /\ UNCHANGED <<access_token, auth_lost_callback, cookies_updated_callback,
                   save_lats_callback, last_access_token_success,
                   persistent_lats, now, result, response>>

\* An authenticate that drops the token when its token request fails.
AuthenticateResponseClearing(c, resp) ==
    /\ pc[c] = "authenticate_token"
    /\ LET r == GetAccessToken(resp)
       IN  /\ access_token' = IF r.raised = "none" THEN r.token ELSE Nil
           /\ last_access_token_success' = r.lats
           /\ persistent_lats' = r.plats
           /\ trace' = [trace EXCEPT ![c] = @ \o r.events]
           /\ result' = [result EXCEPT ![c] = IF r.raised = "none" THEN "ok" ELSE r.raised]
    /\ response' = [response EXCEPT ![c] = resp]
    /\ pc' = [pc EXCEPT ![c] = "done"]
    /\ UNCHANGED <<cookie_jar, stored_cookies, auth_lost_callback,
                   cookies_updated_callback, save_lats_callback, now, op>>

\* authenticate, from the answer of the token request to its end.
AuthenticateResponse(c, resp) ==
    /\ pc[c] = "authenticate_token"
    /\ LET r == GetAccessToken(resp)
       IN  /\ access_token' = r.token
           /\ last_access_token_success' = r.lats
           /\ persistent_lats' = r.plats
           /\ trace' = [trace EXCEPT ![c] = @ \o r.events]
           /\ result' = [result EXCEPT ![c] = IF r.raised = "none" THEN "ok" ELSE r.raised]
    /\ response' = [response EXCEPT ![c] = resp]
    /\ pc' = [pc EXCEPT ![c] = "done"]
    /\ UNCHANGED <<cookie_jar, stored_cookies, auth_lost_callback,
                   cookies_updated_callback, save_lats_callback, now, op>>

\* A get without its token guard: the request is sent whatever the token.
GetCallUnguarded(c) ==
    /\ pc[c] = "idle"
    /\ op' = [op EXCEPT ![c] = [NoOp EXCEPT !.name = "get",
                                            !.token0 = access_token,
                                            !.jar0 = cookie_jar]]
    /\ trace' = [trace EXCEPT ![c] = <<EvGet(access_token)>>]
    /\ pc' = [pc EXCEPT ![c] = "get_first"]
    /\ UNCHANGED <<httpVars, result, response>>

\* get (backend.py:71-76): without a token it raises at once; with one it
\* sends the first authorized request (_authorized_get, backend.py:82-88).
GetCall(c) ==
    /\ pc[c] = "idle"
    /\ op' = [op EXCEPT ![c] = [NoOp EXCEPT !.name = "get",
                                            !.token0 = access_token,
                                            !.jar0 = cookie_jar]]
    /\ IF Falsy(access_token)
       THEN /\ result' = [result EXCEPT ![c] = "AccessDenied"]
            /\ pc' = [pc EXCEPT ![c] = "done"]
            /\ UNCHANGED trace
       ELSE /\ trace' = [trace EXCEPT ![c] = <<EvGet(access_token)>>]
            /\ pc' = [pc EXCEPT ![c] = "get_first"]
            /\ UNCHANGED result
    /\ UNCHANGED <<httpVars, response>>

\* get (backend.py:76-79): the first request has ended.  AuthenticationRequired
\* and AccessDenied start _refresh_token, whose token request is sent.
GetFirstResponse(c, outcome) ==
    /\ pc[c] = "get_first"
    /\ op' = [op EXCEPT ![c].first = outcome]
    /\ IF outcome \in RetriedErrors
       THEN /\ trace' = [trace EXCEPT ![c] = @ \o <<Ev("refresh"), Ev("token_request")>>]
            /\ pc' = [pc EXCEPT ![c] = "get_refresh"]
            /\ UNCHANGED result
       ELSE /\ result' = [result EXCEPT ![c] = outcome]
            /\ pc' = [pc EXCEPT ![c] = "done"]
            /\ UNCHANGED trace
    /\ UNCHANGED <<httpVars, response>>

\* _refresh_token (backend.py:90-101) from the answer of the token request on,
\* and, when it returns, the retry of get (backend.py:80).  op.refresh keeps
\* what _get_access_token raised ("ok" when it returned).
RefreshResponse(c, resp) ==
    /\ pc[c] = "get_refresh"
    /\ op' = [op EXCEPT ![c].refresh = IF GetAccessToken(resp).raised = "none" THEN "ok"
                                       ELSE GetAccessToken(resp).raised]
    /\ response' = [response EXCEPT ![c] = resp]
    /\ LET r == GetAccessToken(resp)
       IN  /\ last_access_token_success' = r.lats
           /\ persistent_lats' = r.plats
           /\ IF r.raised = "none"
              THEN /\ access_token' = r.token
                   /\ trace' = [trace EXCEPT ![c] = @ \o r.events \o <<EvGet(r.token)>>]
                   /\ pc' = [pc EXCEPT ![c] = "get_retry"]
                   /\ UNCHANGED result
              ELSE IF r.raised \in RefreshReraised
              THEN /\ access_token' = r.token
                   /\ trace' = [trace EXCEPT ![c] = @ \o r.events \o <<Ev("log_warning_refresh")>>]
                   /\ result' = [result EXCEPT ![c] = r.raised]
                   /\ pc' = [pc EXCEPT ![c] = "done"]
              ELSE /\ access_token' = Nil
                   /\ trace' = [trace EXCEPT ![c] =
                                   @ \o r.events \o <<Ev("log_exception_refresh")>>
                                   \o (IF auth_lost_callback THEN <<Ev("auth_lost")>> ELSE <<>>)]
                   /\ result' = [result EXCEPT ![c] = "AccessDenied"]
                   /\ pc' = [pc EXCEPT ![c] = "done"]
    /\ UNCHANGED <<cookie_jar, stored_cookies, auth_lost_callback,
                   cookies_updated_callback, save_lats_callback, now>>

\* A get that answers a failed retry with another refresh.
GetRetryResponseAgain(c, outcome) ==
    /\ pc[c] = "get_retry"
    /\ op' = [op EXCEPT ![c].retry = outcome]
    /\ IF outcome \in RetriedErrors
       THEN /\ trace' = [trace EXCEPT ![c] = @ \o <<Ev("refresh"), Ev("token_request")>>]
            /\ pc' = [pc EXCEPT ![c] = "get_refresh"]
            /\ UNCHANGED result
       ELSE /\ result' = [result EXCEPT ![c] = outcome]
            /\ pc' = [pc EXCEPT ![c] = "done"]
            /\ UNCHANGED trace
    /\ UNCHANGED <<httpVars, response>>

\* get (backend.py:80): the retry has ended, and get ends as it did.
GetRetryResponse(c, outcome) ==
    /\ pc[c] = "get_retry"
    /\ op' = [op EXCEPT ![c].retry = outcome]
    /\ result' = [result EXCEPT ![c] = outcome]
    /\ pc' = [pc EXCEPT ![c] = "done"]
    /\ UNCHANGED <<httpVars, trace, response>>

\* The caller has its answer; its next call starts afresh.
Return(c) ==
    /\ pc[c] = "done"
    /\ pc' = [pc EXCEPT ![c] = "idle"]
    /\ op' = [op EXCEPT ![c] = NoOp]
    /\ trace' = [trace EXCEPT ![c] = <<>>]
    /\ result' = [result EXCEPT ![c] = "none"]
    /\ response' = [response EXCEPT ![c] = NoResponse]
    /\ UNCHANGED httpVars

\* The gets one _get_offers has in flight at once (plugin.py:210-212): one
\* get_offer, so one get (backend.py:200), per missing offer, all gathered.
GatheredGets == {"g1", "g2"}

\* The client when the gathered gets start: a token is held, which the
\* backend may take for expired, and no get has started.
ClientGathered ==
    /\ access_token = Some(<<"TOK1">>)
    /\ cookie_jar \in {EmptyJar, [n \in {"utag_main"} |-> UtagGood]}
    /\ stored_cookies = Nil
    /\ auth_lost_callback = TRUE
    /\ cookies_updated_callback = TRUE
    /\ save_lats_callback = FALSE
    /\ last_access_token_success = Nil
    /\ persistent_lats = Nil
    /\ now = 0
    /\ pc = [c \in GatheredGets |-> "idle"]
    /\ op = [c \in GatheredGets |-> NoOp]
    /\ trace = [c \in GatheredGets |-> <<>>]
    /\ result = [c \in GatheredGets |-> "none"]
    /\ response = [c \in GatheredGets |-> NoResponse]

\* handshake_complete (plugin.py:617-618): the stored timestamp is loaded and
\* the save callback registered.
HandshakeComplete ==
    /\ ~save_lats_callback
    /\ last_access_token_success' = persistent_lats
    /\ save_lats_callback' = TRUE
    /\ UNCHANGED <<access_token, cookie_jar, stored_cookies, auth_lost_callback,
                   cookies_updated_callback, persistent_lats, now, callVars>>

\* Time passes.
Tick ==
    /\ now < MaxTime
    /\ now' = now + 1
    /\ UNCHANGED <<access_token, cookie_jar, stored_cookies, auth_lost_callback,
                   cookies_updated_callback, save_lats_callback,
                   last_access_token_success, persistent_lats, callVars>>

\* The client after OriginPlugin.__init__ (plugin.py:77-93), which builds it
\* (backend.py:50-56) and registers its two callbacks.
ClientInit ==
    /\ access_token = Nil
    /\ cookie_jar = EmptyJar
    /\ stored_cookies = Nil
    /\ auth_lost_callback = TRUE
    /\ cookies_updated_callback = TRUE
    /\ save_lats_callback = FALSE
    /\ last_access_token_success = Nil
    /\ persistent_lats = Nil
    /\ now = 0
    /\ pc = [c \in Callers |-> "idle"]
    /\ op = [c \in Callers |-> NoOp]
    /\ trace = [c \in Callers |-> <<>>]
    /\ result = [c \in Callers |-> "none"]
    /\ response = [c \in Callers |-> NoResponse]

-----------------------------------------------------------------------------
(* The offer cache: OriginPlugin._get_offers, plugin.py:195-229.           *)

OfferIds == {"OFR1", "OFR2"}

\* The lists of offer ids _get_offers is called with.
OfferIdLists == UNION {[1..n -> OfferIds] : n \in 0..MaxOffers}

\* The game slug the backend reports for a product.
SlugOf(id) == IF id = "OFR1" THEN "the-sims-4" ELSE "battlefield-1"

\* What get_offer (backend.py:193-206) gives for one offer id, as gather
\* collects it: an exception, or the pair of legacyOffers[0] and
\* gameProducts.items[0], each of them None or an object with the fields the
\* query asks for.  The product may report another offer id than the one asked.
FetchOutcomes(id) ==
    [exc : {"BackendError", "IndexError"}, legacy : {Nil}, product : {Nil}]
    \cup [exc : {"none"},
          legacy : {Nil, Some([offerId |-> id])},
          product : {Nil} \cup {Some([originOfferId |-> p, gameSlug |-> SlugOf(p)]) :
                                   p \in OfferIds}]

AllFetchOutcomes == UNION {FetchOutcomes(id) : id \in OfferIds}

EmptyCache == [k \in {} |-> Nil]

\* d[k] = v for a dict.
Put(d, k, v) == [x \in DOMAIN d \cup {k} |-> IF x = k THEN v ELSE d[x]]

\* The first loop of _get_offers (plugin.py:200-207).
CachedOffers(cache, ids) ==
    [id \in {ids[i] : i \in DOMAIN ids} \cap DOMAIN cache |-> cache[id]]
IsMissing(cache, id) == id \notin DOMAIN cache
MissingOffers(cache, ids) == SelectSeq(ids, LAMBDA id : IsMissing(cache, id))

\* A result loop that never writes the cache.
RECURSIVE ProcessOffersNoStore(_, _, _)
ProcessOffersNoStore(offers, cache, outs) ==
    IF outs = <<>>
    THEN [offers |-> offers, cache |-> cache, logged |-> <<>>, raised |-> "none"]
    ELSE LET o == Head(outs)
         IN  IF o.exc # "none"
             THEN LET r == ProcessOffersNoStore(offers, cache, Tail(outs))
                  IN  [r EXCEPT !.logged = <<"error">> \o @]
             ELSE IF o.legacy # Nil /\ o.product # Nil
             THEN LET id == o.product[1].originOfferId
                      v == [offerId |-> o.legacy[1].offerId,
                            gameSlug |-> o.product[1].gameSlug]
                  IN  ProcessOffersNoStore(Put(offers, id, v), cache, Tail(outs))
             ELSE LET r == ProcessOffersNoStore(offers, cache, Tail(outs))
                  IN  [r EXCEPT !.logged = <<"warning">> \o @]

\* A result loop that raises the first exception gather collected.
RECURSIVE ProcessOffersRaising(_, _, _)
ProcessOffersRaising(offers, cache, outs) ==
    IF outs = <<>>
    THEN [offers |-> offers, cache |-> cache, logged |-> <<>>, raised |-> "none"]
    ELSE LET o == Head(outs)
         IN  IF o.exc # "none"
             THEN [offers |-> offers, cache |-> cache, logged |-> <<>>, raised |-> o.exc]
             ELSE IF o.legacy # Nil /\ o.product # Nil
             THEN LET id == o.product[1].originOfferId
                      v == [offerId |-> o.legacy[1].offerId,
                            gameSlug |-> o.product[1].gameSlug]
                  IN  ProcessOffersRaising(Put(offers, id, v), Put(cache, id, v), Tail(outs))
             ELSE LET r == ProcessOffersRaising(offers, cache, Tail(outs))
                  IN  [r EXCEPT !.logged = <<"warning">> \o @]

\* A result loop that stores each offer under the id of legacyOffers, the id
\* that was asked for.
RECURSIVE ProcessOffersAsAsked(_, _, _)
ProcessOffersAsAsked(offers, cache, outs) ==
    IF outs = <<>>
    THEN [offers |-> offers, cache |-> cache, logged |-> <<>>, raised |-> "none"]
    ELSE LET o == Head(outs)
         IN  IF o.exc # "none"
             THEN LET r == ProcessOffersAsAsked(offers, cache, Tail(outs))
                  IN  [r EXCEPT !.logged = <<"error">> \o @]
             ELSE IF o.legacy # Nil /\ o.product # Nil
             THEN LET id == o.legacy[1].offerId
                      v == [offerId |-> o.legacy[1].offerId,
                            gameSlug |-> o.product[1].gameSlug]
                  IN  ProcessOffersAsAsked(Put(offers, id, v), Put(cache, id, v), Tail(outs))
             ELSE LET r == ProcessOffersAsAsked(offers, cache, Tail(outs))
                  IN  [r EXCEPT !.logged = <<"warning">> \o @]

\* The loop over the gathered results (plugin.py:214-225): an exception is
\* logged and skipped; a pair with both parts is stored, in the result and in
\* the cache, under the offer id the product reports, with the product's
\* game slug; any other pair is logged and skipped.
RECURSIVE ProcessOffers(_, _, _)
ProcessOffers(offers, cache, outs) ==
    IF outs = <<>>
    THEN [offers |-> offers, cache |-> cache, logged |-> <<>>, raised |-> "none"]
    ELSE LET o == Head(outs)
         IN  IF o.exc # "none"
             THEN LET r == ProcessOffers(offers, cache, Tail(outs))
                  IN  [r EXCEPT !.logged = <<"error">> \o @]
             ELSE IF o.legacy # Nil /\ o.product # Nil
             THEN LET id == o.product[1].originOfferId
                      v == [offerId |-> o.legacy[1].offerId,
                            gameSlug |-> o.product[1].gameSlug]
                  IN  ProcessOffers(Put(offers, id, v), Put(cache, id, v), Tail(outs))
             ELSE LET r == ProcessOffers(offers, cache, Tail(outs))
                  IN  [r EXCEPT !.logged = <<"warning">> \o @]

\* The fetch of fetched[i] gave usable data reported under the id asked for.
StoredAsAsked(fetched, outs, i) ==
    /\ outs[i].exc = "none" /\ outs[i].legacy # Nil /\ outs[i].product # Nil
    /\ outs[i].product[1].originOfferId = fetched[i]

NoOffersCall ==
    [pc |-> "idle", round |-> 0, ids |-> <<>>, missing |-> <<>>, outcomes |-> <<>>,
     offers |-> EmptyCache, logged |-> <<>>, pushed |-> FALSE, result |-> "none",
     first_missing |-> <<>>, first_unstored |-> {}]

\* _get_offers up to its await (plugin.py:200-212): the ids are split into
\* cached and missing; with nothing missing it returns at once.
StartGetOffers(ids, round, first_missing, first_unstored) ==
    LET missing == MissingOffers(offer_id_cache, ids)
    IN  /\ offers_call' =
              [NoOffersCall EXCEPT
                 !.pc = IF missing = <<>> THEN "done" ELSE "gather",
                 !.round = round, !.ids = ids, !.missing = missing,
                 !.offers = CachedOffers(offer_id_cache, ids),
                 !.result = IF missing = <<>> THEN "ok" ELSE "none",
                 !.first_missing = first_missing,
                 !.first_unstored = first_unstored]
        /\ UNCHANGED offer_id_cache

\* A first call of _get_offers.
GetOffersCall(ids) ==
    /\ offers_call.pc = "idle"
    /\ StartGetOffers(ids, 1, <<>>, {})

\* gather has collected one outcome per missing id (plugin.py:212-229):
\* the loop runs, then push_cache.
GetOffersGathered(outs) ==
    /\ offers_call.pc = "gather"
    /\ DOMAIN outs = DOMAIN offers_call.missing
    /\ \A i \in DOMAIN outs : outs[i] \in FetchOutcomes(offers_call.missing[i])
    /\ LET r == ProcessOffers(offers_call.offers, offer_id_cache, outs)
       IN  /\ offer_id_cache' = r.cache
           /\ offers_call' =
                 [offers_call EXCEPT
                    !.pc = "done", !.outcomes = outs, !.offers = r.offers,
                    !.logged = r.logged, !.pushed = (r.raised = "none"),
                    !.result = IF r.raised = "none" THEN "ok" ELSE r.raised]

\* The caller calls _get_offers again, at once, with the same ids.
\* first_missing keeps the ids the first call fetched, first_unstored those
\* of them whose fetch failed, gave no usable data or was reported under
\* another id.
GetOffersRepeat ==
    /\ offers_call.pc = "done"
    /\ offers_call.round = 1
    /\ StartGetOffers(offers_call.ids, 2, offers_call.missing,
          {offers_call.missing[i] : i \in
              {j \in DOMAIN offers_call.missing :
                  ~StoredAsAsked(offers_call.missing, offers_call.outcomes, j)}})

\* The caller has its offers.
OffersReturn ==
    /\ offers_call.pc = "done"
    /\ offers_call' = NoOffersCall
    /\ UNCHANGED offer_id_cache

OffersInit ==
    /\ offer_id_cache = EmptyCache
    /\ offers_call = NoOffersCall

-----------------------------------------------------------------------------
(* The play-time cache: _get_game_times_for_master_title and               *)
(* game_times_import_complete, plugin.py:378-407 and 440-443.              *)

GameIds == {"OFR1", "OFR2@steam"}

Stamps == 0..MaxStamp

\* GameTime(game_id, time_played, last_played_time).
GameTime(id, minutes, last) ==
    [game_id |-> id, time_played |-> minutes, last_played_time |-> last]

\* What get_game_time (backend.py:263-308) gives: an exception, or the
\* minutes played with the last-played timestamp, (0, None) for a game never
\* played.
GameTimeOutcomes ==
    [exc : {"UnknownBackendResponse", "BackendError"}, minutes : {0}, last : {Nil}]
    \cup [exc : {"none"}, minutes : {0}, last : {Nil}]
    \cup [exc : {"none"}, minutes : {13}, last : {Some(t) : t \in Stamps}]

\* A freshness test that takes an entry as old as the remote for stale.
CachedGameTimesStrict(cache, id, lastplayed) ==
    IF lastplayed = Nil THEN Nil
    ELSE IF id \notin DOMAIN cache THEN Nil
    ELSE IF cache[id].last_played_time = Nil THEN Nil
    ELSE IF lastplayed[1] >= cache[id].last_played_time[1] THEN Nil
    ELSE Some(cache[id])

\* get_cached_game_times (plugin.py:384-397): Nil when a new entry is to be
\* retrieved.
CachedGameTimes(cache, id, lastplayed) ==
    IF lastplayed = Nil THEN Nil
    ELSE IF id \notin DOMAIN cache THEN Nil
    ELSE IF cache[id].last_played_time = Nil THEN Nil
    ELSE IF lastplayed[1] > cache[id].last_played_time[1] THEN Nil
    ELSE Some(cache[id])

NoGameTimeCall ==
    [pc |-> "idle", game_id |-> "none", lastplayed |-> Nil, cached0 |-> Nil,
     fetches |-> 0, returned |-> Nil, result |-> "none"]

\* _get_game_times_for_master_title up to its await (plugin.py:399-403).
GameTimeCall(id, lastplayed) ==
    /\ game_time_call.pc = "idle"
    /\ LET hit == CachedGameTimes(game_time_cache, id, lastplayed)
           call == [NoGameTimeCall EXCEPT
                       !.game_id = id, !.lastplayed = lastplayed,
                       !.cached0 = IF id \in DOMAIN game_time_cache
                                   THEN Some(game_time_cache[id]) ELSE Nil]
       IN  game_time_call' =
              IF hit # Nil
              THEN [call EXCEPT !.pc = "done", !.returned = hit, !.result = "ok"]
              ELSE [call EXCEPT !.pc = "fetch", !.fetches = 1]
    /\ UNCHANGED <<game_time_cache, persistent_cache_updated>>

\* The fetch has ended (plugin.py:403-407): the record is stored under the
\* game id and the cache marked as updated; an exception ends the call.
GameTimeFetched(out) ==
    /\ game_time_call.pc = "fetch"
    /\ IF out.exc # "none"
       THEN /\ game_time_call' = [game_time_call EXCEPT !.pc = "done", !.result = out.exc]
            /\ UNCHANGED <<game_time_cache, persistent_cache_updated>>
       ELSE LET gt == GameTime(game_time_call.game_id, out.minutes, out.last)
            IN  /\ game_time_cache' = Put(game_time_cache, game_time_call.game_id, gt)
                /\ persistent_cache_updated' = TRUE
                /\ game_time_call' = [game_time_call EXCEPT
                                         !.pc = "done", !.returned = Some(gt),
                                         !.result = "ok"]

\* The caller has its GameTime.
GameTimeReturn ==
    /\ game_time_call.pc = "done"
    /\ game_time_call' = NoGameTimeCall
    /\ UNCHANGED <<game_time_cache, persistent_cache_updated>>

\* The JSON object of a GameTime: the host's encoder leaves a None field out.
EncodeGameTime(gt) ==
    IF gt.last_played_time = Nil
    THEN [game_id |-> gt.game_id, time_played |-> gt.time_played]
    ELSE [game_id |-> gt.game_id, time_played |-> gt.time_played,
          last_played_time |-> gt.last_played_time[1]]

\* The JSON text of a value, and json.loads of a text.
JsonDumps(value) == [kind |-> "json", text |-> value]
JsonLoads(text) == text.text

\* What the host keeps of the persistent cache pushed to it.
EncodeCaches(offers, game_time) ==
    [offers |-> JsonDumps(offers),
     game_time |-> JsonDumps([k \in DOMAIN game_time |-> EncodeGameTime(game_time[k])])]

\* An import-complete that pushes the cache and leaves it marked.
GameTimesImportCompleteStillDirty ==
    /\ persistent_cache_updated
    /\ galaxy_store' = Some(EncodeCaches(offer_id_cache, game_time_cache))
    /\ UNCHANGED <<game_time_cache, persistent_cache_updated, game_time_call, reloaded>>

\* game_times_import_complete (plugin.py:440-443): a cache marked as updated
\* is pushed to the host and the mark taken off; else nothing is done.
GameTimesImportComplete ==
    /\ persistent_cache_updated
    /\ galaxy_store' = Some(EncodeCaches(offer_id_cache, game_time_cache))
    /\ persistent_cache_updated' = FALSE
    /\ UNCHANGED <<game_time_cache, game_time_call, reloaded>>

GameTimeInit ==
    /\ game_time_cache = EmptyCache
    /\ persistent_cache_updated = FALSE
    /\ game_time_call = NoGameTimeCall

-----------------------------------------------------------------------------
(* get_state_changes, local_games.py:162-176 (lgames_manifests.py:36-50 is *)
(* the same function).                                                     *)

LocalGameIds == {"A", "B", "C"}

\* LocalGameState: None_, Installed, Running.
LocalGameStates == {"None_", "Installed", "Running"}

LocalGame(id, state) == [game_id |-> id, local_game_state |-> state]

LocalGameLists ==
    UNION {[1..n -> {LocalGame(id, st) : id \in LocalGameIds, st \in LocalGameStates}] :
              n \in 0..MaxGames}

\* {x.game_id: x.local_game_state for x in list}: the last entry of an id wins.
DictOf(list) ==
    [id \in {list[i].game_id : i \in DOMAIN list} |->
        list[CHOOSE i \in DOMAIN list :
                /\ list[i].game_id = id
                /\ \A j \in DOMAIN list : list[j].game_id = id => j <= i].local_game_state]

\* The orders in which a set can be iterated.
Orders(S) ==
    {s \in [1..Cardinality(S) -> S] : \A i, j \in DOMAIN s : s[i] = s[j] => i = j}

\* The three parts of the result (local_games.py:167, 169, 171-175).
RemovedIds(old, new) == DOMAIN DictOf(old) \ DOMAIN DictOf(new)
IsAdded(old, new, g) == g.game_id \in DOMAIN DictOf(new) \ DOMAIN DictOf(old)
AddedGames(old, new) == SelectSeq(new, LAMBDA g : IsAdded(old, new, g))
ChangedIds(old, new) ==
    {id \in DOMAIN DictOf(new) \cap DOMAIN DictOf(old) : DictOf(new)[id] # DictOf(old)[id]}

\* A diff that reports a changed game with the state it had.
StateChangesOldState(old, new, removed, changed) ==
    [i \in DOMAIN removed |-> LocalGame(removed[i], "None_")]
    \o AddedGames(old, new)
    \o [i \in DOMAIN changed |-> LocalGame(changed[i], DictOf(old)[changed[i]])]

\* get_state_changes, the two sets iterated in the orders given.
StateChanges(old, new, removed, changed) ==
    [i \in DOMAIN removed |-> LocalGame(removed[i], "None_")]
    \o AddedGames(old, new)
    \o [i \in DOMAIN changed |-> LocalGame(changed[i], DictOf(new)[changed[i]])]

\* get_state_changes is called on the two lists.
GetStateChanges ==
    /\ changes = Nil
    /\ \E removed \in Orders(RemovedIds(old_list, new_list)),
          changed \in Orders(ChangedIds(old_list, new_list)) :
           changes' = Some(StateChanges(old_list, new_list, removed, changed))
    /\ UNCHANGED <<old_list, new_list>>

\* Two lists of local games.
DiffInit ==
    /\ old_list \in LocalGameLists
    /\ new_list \in LocalGameLists
    /\ changes = Nil

\* No call of get_state_changes.
DiffIdle ==
    /\ old_list = <<>>
    /\ new_list = <<>>
    /\ changes = Nil

-----------------------------------------------------------------------------
(* The local-games passes: tick, handle_local_game_update_notifications    *)
(* and get_local_games, plugin.py:106-107, 296-333.                        *)

\* plugin.py:41, in seconds.
LOCAL_GAMES_CACHE_VALID_PERIOD == 3600

\* The seconds that pass before a call or before the end of a pass.
Delays == {1, LOCAL_GAMES_CACHE_VALID_PERIOD}

\* time.time() at the start of the plugin: the epoch is long past, so that
\* the first tick finds the initial _local_games_last_update of 0 stale.
StartTime == LOCAL_GAMES_CACHE_VALID_PERIOD

\* The passes that have not ended.
OpenPasses == {p \in DOMAIN passes : passes[p].state \in {"created", "running"}}

\* One entry of call_log: what the call found and the pass it launched, if any.
CallRecord(kind, time, launched) ==
    [kind |-> kind, time |-> time,
     flag |-> local_games_update_in_progress,
     last |-> local_games_last_update,
     open |-> OpenPasses,
     pass |-> launched]

\* A pass, launched by tick or by get_local_games.
NewPass(origin, state) == [origin |-> origin, state |-> state, notified |-> FALSE]

\* The two early returns of handle_local_game_update_notifications, the first
\* alone.
MaySkipUpdateInProgressOnly(time) ==
    local_games_update_in_progress

\* The two early returns of handle_local_game_update_notifications
\* (plugin.py:324-330).
MaySkipUpdate(time) ==
    \/ local_games_update_in_progress
    \/ time - local_games_last_update < LOCAL_GAMES_CACHE_VALID_PERIOD

\* tick (plugin.py:106-107, 310-333), d seconds after the last event: nothing
\* when a pass is in progress or the last one is recent, else the task
\* notify_local_games_changed is created.  The host calls tick from a loop
\* that sleeps between two calls, so a task created by a tick has started
\* before the next tick.
TickCall(d) ==
    /\ Len(call_log) < MaxCalls
    /\ \A p \in DOMAIN passes : passes[p].state # "created"
    /\ wall_clock' = wall_clock + d
    /\ IF MaySkipUpdate(wall_clock')
       THEN /\ call_log' = Append(call_log, CallRecord("tick", wall_clock', 0))
            /\ UNCHANGED passes
       ELSE /\ passes' = Append(passes, NewPass("tick", "created"))
            /\ call_log' = Append(call_log, CallRecord("tick", wall_clock', Len(passes) + 1))
    /\ UNCHANGED <<local_games_update_in_progress, local_games_last_update>>

\* The first step of notify_local_games_changed (plugin.py:311-315): the flag
\* is set and LocalGames.update handed to the executor.
PassStart(p) ==
    /\ p \in DOMAIN passes
    /\ passes[p].state = "created"
    /\ local_games_update_in_progress' = TRUE
    /\ passes' = [passes EXCEPT ![p].state = "running"]
    /\ UNCHANGED <<local_games_last_update, wall_clock, call_log>>

\* get_local_games up to its await (plugin.py:296-304), d seconds after the
\* last event: the cached list when a pass is in progress, else the flag is
\* set and LocalGames.update handed to the executor.  The coroutine may start
\* between a tick and the first step of the task the tick created.
GetLocalGamesCall(d) ==
    /\ Len(call_log) < MaxCalls
    /\ wall_clock' = wall_clock + d
    /\ IF local_games_update_in_progress
       THEN /\ call_log' = Append(call_log, CallRecord("get_local_games", wall_clock', 0))
            /\ UNCHANGED <<passes, local_games_update_in_progress>>
       ELSE /\ local_games_update_in_progress' = TRUE
            /\ passes' = Append(passes, NewPass("get_local_games", "running"))
            /\ call_log' = Append(call_log,
                              CallRecord("get_local_games", wall_clock', Len(passes) + 1))
    /\ UNCHANGED local_games_last_update

\* A recorded time that every exit of LocalGames.update moves.
LastUpdateAfterAnyExit(outcome, time) ==
    time

\* self._local_games_last_update = time.time() is the statement after the
\* await in the try block (plugin.py:305, 317): an exception skips it.
LastUpdateAfter(outcome, time) ==
    IF outcome = "returned" THEN time ELSE local_games_last_update

\* An end of a pass that resets the flag only when LocalGames.update returned.
PassEndNoFinally(p, outcome, d) ==
    /\ p \in DOMAIN passes
    /\ passes[p].state = "running"
    /\ wall_clock' = wall_clock + d
    /\ local_games_last_update' = LastUpdateAfter(outcome, wall_clock')
    /\ local_games_update_in_progress' =
           IF outcome = "returned" THEN FALSE ELSE local_games_update_in_progress
    /\ passes' = [passes EXCEPT
                    ![p].state = outcome,
                    ![p].notified = (outcome = "returned" /\ passes[p].origin = "tick")]
    /\ UNCHANGED call_log

\* LocalGames.update has returned or raised, d seconds after the last event
\* (plugin.py:304-308, 315-321): the time of a pass that returned is
\* recorded, the flag is reset on either exit, and a pass of tick that
\* returned notifies the host of every change.
PassEnd(p, outcome, d) ==
    /\ p \in DOMAIN passes
    /\ passes[p].state = "running"
    /\ wall_clock' = wall_clock + d
    /\ local_games_last_update' = LastUpdateAfter(outcome, wall_clock')
    /\ local_games_update_in_progress' = FALSE
    /\ passes' = [passes EXCEPT
                    ![p].state = outcome,
                    ![p].notified = (outcome = "returned" /\ passes[p].origin = "tick")]
    /\ UNCHANGED call_log

\* The state after OriginPlugin.__init__ (plugin.py:91-93).
SchedInit ==
    /\ local_games_update_in_progress = FALSE
    /\ local_games_last_update = 0
    /\ wall_clock = StartTime
    /\ passes = <<>>
    /\ call_log = <<>>

-----------------------------------------------------------------------------
(* Game ids: get_game_id and _offer_id_from_game_id, plugin.py:232-240 and *)
(* 139-141.  A string is the sequence of its parts.                        *)

\* The parts of the offer ids the backend issues, as OFR123 or
\* OFB-EAST:109552299 (plugin.py:62): none holds an @.
IdParts == {"OFR123", "OFB-EAST", ":", "109552299"}

OriginOfferIds == UNION {[1..n -> IdParts] : n \in 1..MaxIdParts}

\* ownershipMethods, a list that is not empty.
OwnershipMethods == UNION {[1..n -> {"STEAM", "EPIC", "EA"}] : n \in {1, 2}}

Entitlements == [originOfferId : OriginOfferIds, ownershipMethods : OwnershipMethods]

\* A get_game_id that appends the store without the @.
GetGameIdNoAt(ent) ==
    LET external_type == ent.ownershipMethods[1]
    IN  IF external_type = "STEAM" THEN ent.originOfferId \o <<"steam">>
        ELSE IF external_type = "EPIC" THEN ent.originOfferId \o <<"epic">>
        ELSE ent.originOfferId

\* get_game_id (plugin.py:232-240): the store is the first ownership method.
GetGameId(ent) ==
    LET external_type == ent.ownershipMethods[1]
    IN  IF external_type = "STEAM" THEN ent.originOfferId \o <<"@", "steam">>
        ELSE IF external_type = "EPIC" THEN ent.originOfferId \o <<"@", "epic">>
        ELSE ent.originOfferId

\* _offer_id_from_game_id (plugin.py:139-141): game_id.split('@')[0].
OfferIdFromGameId(gid) == Split(gid, "@")[1]

\* get_game_id is applied to the entitlement.
DeriveGameId ==
    /\ game_id = Nil
    /\ game_id' = Some(GetGameId(entitlement))
    /\ UNCHANGED <<entitlement, offer_id_back>>

\* _offer_id_from_game_id is applied to the game id.
StripGameId ==
    /\ game_id # Nil
    /\ offer_id_back = Nil
    /\ offer_id_back' = Some(OfferIdFromGameId(game_id[1]))
    /\ UNCHANGED <<entitlement, game_id>>

\* Any entitlement.
GameIdInit ==
    /\ entitlement \in Entitlements
    /\ game_id = Nil
    /\ offer_id_back = Nil

\* No entitlement at hand.
GameIdIdle ==
    /\ entitlement = Nil
    /\ game_id = Nil
    /\ offer_id_back = Nil

-----------------------------------------------------------------------------
(* Achievements: OriginBackendClient.get_achievements, backend.py:209-245. *)

AchievementIds == {"ach1", "ach2"}
AchievementSetIds == {"set1", "set2"}

\* The name and the date the backend reports for an achievement.
NameOf(id) == IF id = "ach1" THEN "First Blood" ELSE "Veteran"
DateOf(id) == IF id = "ach1" THEN "2020-01-01T00:00:00.000Z" ELSE "2021-06-15T12:30:45.500Z"

\* int(datetime.strptime(date, "%Y-%m-%dT%H:%M:%S.%fZ").timestamp()), on a
\* host whose clock is UTC.
UnixTime(date) ==
    IF date = "2020-01-01T00:00:00.000Z" THEN 1577836800 ELSE 1623760245

\* The entries of an achievement set; an entry may lack its awardCount.
AchievementEntries ==
    [id : AchievementIds, awardCount : {0, 1, 2}, complete : {TRUE}]
    \cup [id : {"ach1"}, awardCount : {0}, complete : {FALSE}]

\* The achievement sets of a response, no two with the same id.
AchievementSets ==
    [id : AchievementSetIds,
     achievements : UNION {[1..n -> AchievementEntries] : n \in 0..MaxAchievements}]

AchievementResponses ==
    {<<>>} \cup {<<s>> : s \in AchievementSets}
    \cup {<<s, t>> : s \in {x \in AchievementSets : x.id = "set1"},
                     t \in {x \in AchievementSets : x.id = "set2"}}

Achievement(id, name, time) ==
    [achievement_id |-> id, achievement_name |-> name, unlock_time |-> time]

\* A parser that takes every entry awarded at least once.
RECURSIVE ParserAtLeastOnce(_)
ParserAtLeastOnce(entries) ==
    IF entries = <<>> THEN [raised |-> "none", achievements |-> <<>>]
    ELSE LET a == Head(entries)
             rest == ParserAtLeastOnce(Tail(entries))
         IN  IF ~a.complete
             THEN [raised |-> "UnknownBackendResponse", achievements |-> <<>>]
             ELSE IF rest.raised # "none" THEN rest
             ELSE IF a.awardCount >= 1
             THEN [rest EXCEPT !.achievements =
                      <<Achievement(a.id, NameOf(a.id), UnixTime(DateOf(a.id)))>> \o @]
             ELSE rest

\* parser (backend.py:216-233): the entries of awardCount 1, in order; a
\* missing key raises UnknownBackendResponse.
RECURSIVE Parser(_)
Parser(entries) ==
    IF entries = <<>> THEN [raised |-> "none", achievements |-> <<>>]
    ELSE LET a == Head(entries)
             rest == Parser(Tail(entries))
         IN  IF ~a.complete
             THEN [raised |-> "UnknownBackendResponse", achievements |-> <<>>]
             ELSE IF rest.raised # "none" THEN rest
             ELSE IF a.awardCount = 1
             THEN [rest EXCEPT !.achievements =
                      <<Achievement(a.id, NameOf(a.id), UnixTime(DateOf(a.id)))>> \o @]
             ELSE rest

\* The loop over the sets (backend.py:235-241): a dict from set id to the
\* parsed list.
RECURSIVE ParseAchievementSets(_, _)
ParseAchievementSets(sets, acc) ==
    IF sets = <<>> THEN [raised |-> "none", achievement_sets |-> acc]
    ELSE LET r == Parser(Head(sets).achievements)
         IN  IF r.raised # "none"
             THEN [raised |-> r.raised, achievement_sets |-> EmptyCache]
             ELSE ParseAchievementSets(Tail(sets), Put(acc, Head(sets).id, r.achievements))

\* get_achievements on the response (backend.py:209-245).
GetAchievements ==
    /\ ach_result = Nil
    /\ ach_response # Nil
    /\ ach_result' = Some(ParseAchievementSets(ach_response[1], EmptyCache))
    /\ UNCHANGED ach_response

\* Any response.
AchievementsInit ==
    /\ ach_response \in {Some(r) : r \in AchievementResponses}
    /\ ach_result = Nil

\* No response at hand.
AchievementsIdle ==
    /\ ach_response = Nil
    /\ ach_result = Nil

-----------------------------------------------------------------------------
(* Local games: get_local_games_from_manifests and LocalGames,             *)
(* local_games.py:129-160 and 213-250.                                     *)

\* Executable paths, as the parts split("\\") and split(".") cut them in:
\* none, one with .exe and one without.
NoPath == <<>>
ExePath == <<"C:", "\\", "Games", "\\", "TS4_x64", ".", "exe">>
AppPath == <<"C:", "\\", "Games", "\\", "launcher">>
ExecutablePaths == {NoPath, ExePath, AppPath}

\* Software ids, the first part the prefix startswith tests.
SoftwareIds == {<<"Origin", ".SFT.50.0000532">>, <<"EAX", "-1">>}

\* The entries of installInfos: with or without offerId; installStatus 5 is
\* a complete install.
InstallInfos ==
    [offerId : {Nil, Some("OFR1"), Some("OFR2")},
     softwareId : SoftwareIds,
     executablePath : ExecutablePaths,
     installStatus : {"5", "3"}]

Manifests == UNION {[1..n -> InstallInfos] : n \in 0..MaxEntries}

\* The running processes: the game of ExePath, another program, both or none.
GameProcess == <<"C:", "\\", "Games", "\\", "TS4_x64", ".", "exe">>
OtherProcess == <<"C:", "\\", "Windows", "\\", "explorer", ".", "exe">>
ProcessSets == SUBSET {GameProcess, OtherProcess}

\* `needle in hay' for strings cut in parts.
IsSubstring(needle, hay) ==
    \E i \in 0..(Len(hay) - Len(needle)) :
        \A k \in DOMAIN needle : hay[i + k] = needle[k]

\* is_game_running (local_games.py:134-135).
IsGameRunning(game_folder_name, procs) ==
    \E exe \in procs : IsSubstring(game_folder_name, exe)

\* executablePath.split("\\")[-1].split(".")[0] (local_games.py:149).
GameFolderName(path) ==
    LET parts == Split(path, "\\")
    IN  Split(parts[Len(parts)], ".")[1]

\* startswith("Origin") or startswith("OFB") or startswith("DR")
\* (local_games.py:145).
IsGameSoftware(software_id) == software_id[1] \in {"Origin", "OFB", "DR"}

\* The body of the loop of get_local_games_from_manifests
\* (local_games.py:141-158): what one entry adds to the list.  game_state is
\* the set of the flags of OriginGameState (local_games.py:29-32) that are
\* set; after the two |= it is Installed|Playable, which is not equal to
\* Installed.
Classify(game, procs) ==
    IF game.offerId = Nil \/ ~IsGameSoftware(game.softwareId) THEN <<>>
    ELSE IF game.executablePath # NoPath /\ game.installStatus = "5"
    THEN LET game_state == {"Installed", "Playable"}
         IN  IF /\ game.executablePath # NoPath
                /\ IsSubstring(<<".", "exe">>, game.executablePath)
                /\ game_state = {"Installed"}
             THEN IF IsGameRunning(GameFolderName(game.executablePath), procs)
                  THEN <<LocalGame(game.offerId[1], "Running")>>
                  ELSE <<LocalGame(game.offerId[1], "Installed")>>
             ELSE <<LocalGame(game.offerId[1], "None_")>>
    ELSE <<>>

\* get_local_games_from_manifests on a readable manifest
\* (local_games.py:129-160).
RECURSIVE LocalGamesFromManifest(_, _)
LocalGamesFromManifest(infos, procs) ==
    IF infos = <<>> THEN <<>>
    ELSE Classify(Head(infos), procs) \o LocalGamesFromManifest(Tail(infos), procs)

\* get_local_games_from_manifests on the file as it is: json.load raises on
\* an unparsable file, and nothing here raises FailedParsingManifest.
ReadManifest ==
    IF is_with_offer_json = "unparsable"
    THEN [raised |-> "JSONDecodeError", local_games |-> <<>>]
    ELSE [raised |-> "none",
          local_games |-> LocalGamesFromManifest(install_infos, running_processes)]

\* The outcomes of launch_decryption_process (local_games.py:118-127): it
\* returns, or the registry lookup or the elevated start fails.
LaunchOutcomes == {"none", "OSError", "CalledProcessError"}

NoLocalGames == [constructed |-> FALSE, local_games |-> Nil]
NoLocalCall == [op |-> "none", raised |-> "none", notify |-> <<>>,
                manifest |-> "none", before |-> Nil]

\* How the files were when the call was made.
ManifestState ==
    IF ~is_json THEN "is.json absent"
    ELSE IF is_with_offer_json = "absent" THEN "is_with_offer.json absent"
    ELSE IF is_with_offer_json = "unparsable" THEN "is_with_offer.json unparsable"
    ELSE "readable"

\* LocalGames.__init__ (local_games.py:214-226).  Only FailedParsingManifest
\* is caught; without is.json the attribute _local_games is never set.
LocalGamesConstruct(launch) ==
    /\ local_games_last.op = "none"
    /\ LET raised ==
               IF ~is_json THEN launch
               ELSE IF is_with_offer_json = "absent" THEN "none"
               ELSE ReadManifest.raised
           games ==
               IF ~is_json THEN Nil
               ELSE IF is_with_offer_json = "absent" THEN Some(<<>>)
               ELSE Some(ReadManifest.local_games)
       IN  /\ local_games_object' =
                 IF raised = "none"
                 THEN [constructed |-> TRUE, local_games |-> games]
                 ELSE NoLocalGames
           /\ local_games_last' =
                 [op |-> "__init__", raised |-> raised, notify |-> <<>>,
                  manifest |-> ManifestState, before |-> Nil]
    /\ UNCHANGED <<is_json, is_with_offer_json, install_infos, running_processes>>

\* LocalGames.update (local_games.py:232-250).  Without is.json
\* new_local_games is never bound, and the call of get_state_changes raises:
\* AttributeError when _local_games was never set, else UnboundLocalError.
LocalGamesUpdate(launch) ==
    /\ local_games_object.constructed
    /\ LET old == local_games_object.local_games
           branch ==
               IF ~is_json
               THEN [raised |-> IF launch # "none" THEN launch
                                ELSE IF old = Nil THEN "AttributeError"
                                ELSE "UnboundLocalError",
                     old |-> old, new |-> <<>>]
               ELSE IF is_with_offer_json = "absent"
               THEN [raised |-> "none", old |-> Some(<<>>), new |-> <<>>]
               ELSE IF ReadManifest.raised # "none"
               THEN [raised |-> ReadManifest.raised, old |-> old, new |-> <<>>]
               ELSE IF old = Nil
               THEN [raised |-> "AttributeError", old |-> old, new |-> <<>>]
               ELSE [raised |-> "none", old |-> old, new |-> ReadManifest.local_games]
       IN  IF branch.raised # "none"
           THEN /\ local_games_object' =
                      [local_games_object EXCEPT !.local_games = branch.old]
                /\ local_games_last' =
                      [op |-> "update", raised |-> branch.raised, notify |-> <<>>,
                       manifest |-> ManifestState, before |-> old]
           ELSE \E removed \in Orders(RemovedIds(branch.old[1], branch.new)),
                   changed \in Orders(ChangedIds(branch.old[1], branch.new)) :
                    /\ local_games_object' =
                          [local_games_object EXCEPT !.local_games = Some(branch.new)]
                    /\ local_games_last' =
                          [op |-> "update", raised |-> "none",
                           notify |-> StateChanges(branch.old[1], branch.new,
                                                   removed, changed),
                           manifest |-> ManifestState, before |-> old]
    /\ UNCHANGED <<is_json, is_with_offer_json, install_infos, running_processes>>

\* The decryption the plugin launched has written is.json.
IsJsonWritten ==
    /\ ~is_json
    /\ is_json' = TRUE
    /\ UNCHANGED <<is_with_offer_json, install_infos, running_processes,
                   local_games_object, local_games_last>>

\* _get_owned_offers has written is_with_offer.json (plugin.py:246-268).
IsWithOfferJsonWritten ==
    /\ is_json
    /\ is_with_offer_json # "ok"
    /\ is_with_offer_json' = "ok"
    /\ UNCHANGED <<is_json, install_infos, running_processes,
                   local_games_object, local_games_last>>

\* is_with_offer.json is gone from the temp directory between two passes.
IsWithOfferJsonRemoved ==
    /\ is_with_offer_json # "absent"
    /\ is_with_offer_json' = "absent"
    /\ UNCHANGED <<is_json, install_infos, running_processes,
                   local_games_object, local_games_last>>

\* The manifest has other entries than at the pass before.
ManifestRewritten(infos) ==
    /\ is_with_offer_json = "ok"
    /\ local_games_last.op # "none"
    /\ infos # install_infos
    /\ install_infos' = infos
    /\ UNCHANGED <<is_json, is_with_offer_json, running_processes,
                   local_games_object, local_games_last>>

\* Any state of the two files, any manifest, any processes; no LocalGames yet.
LocalInit ==
    /\ is_json \in BOOLEAN
    /\ is_with_offer_json \in {"absent", "unparsable", "ok"}
    /\ install_infos \in Manifests
    /\ running_processes \in ProcessSets
    /\ local_games_object = NoLocalGames
    /\ local_games_last = NoLocalCall

\* The local games left out.
LocalIdle ==
    /\ is_json = FALSE
    /\ is_with_offer_json = "absent"
    /\ install_infos = <<>>
    /\ running_processes = {}
    /\ local_games_object = NoLocalGames
    /\ local_games_last = NoLocalCall

-----------------------------------------------------------------------------
(* The persistent cache across a restart: push_cache, then the decoding of *)
(* handshake_complete at the next start, plugin.py:544-573 and 614-615.    *)

\* Game ids as the parts split('@') cuts them in: a bare offer id, and offer
\* ids with the suffix of a store.
PersistedGameIds ==
    {<<"OFR1">>, <<"OFR1", "@", "steam">>, <<"OFR2", "@", "epic">>}

\* The contents of the play-time cache: each entry under its own game id
\* (plugin.py:404-405).
GameTimeCaches ==
    UNION {[keys -> [game_id : PersistedGameIds, time_played : {0, 13},
                     last_played_time : {Nil} \cup {Some(t) : t \in Stamps}]] :
              keys \in SUBSET PersistedGameIds}

PlayTimeCaches == {c \in GameTimeCaches : \A k \in DOMAIN c : c[k].game_id = k}

\* The contents of the offer cache (plugin.py:219-222).
OfferCaches ==
    UNION {[keys -> [offerId : OfferIds, gameSlug : {SlugOf(id) : id \in OfferIds}]] :
              keys \in SUBSET OfferIds}

\* entry.get("last_played_time") (plugin.py:553).
GetLastPlayedTime(entry) ==
    IF "last_played_time" \in DOMAIN entry THEN Some(entry.last_played_time) ELSE Nil

\* A decoder that pops no outdated key.
OutdatedKeysNone(cache) == {}

\* The keys game_time_decoder drops (plugin.py:548-550): for every key with
\* an @, the part before it.
OutdatedKeys(cache) ==
    {Split(key, "@")[1] : key \in {k \in DOMAIN cache : Contains(k, "@")}}

\* The entries the comprehension of game_time_decoder builds a GameTime
\* from (plugin.py:552-556): those left after the pop of the outdated keys
\* whose key and entry are not empty.
KeptKeys(cache) ==
    {k \in DOMAIN cache \ OutdatedKeys(cache) : k # <<>> /\ DOMAIN cache[k] # {}}

\* entry["game_id"] or entry["time_played"] raises KeyError.
DecoderRaises(cache) ==
    \E k \in KeptKeys(cache) : ~({"game_id", "time_played"} \subseteq DOMAIN cache[k])

\* A decoder that takes no last-played time from the entry.
GameTimeDecoderNoLastPlayed(cache) ==
    [k \in KeptKeys(cache) |-> GameTime(cache[k].game_id, cache[k].time_played, Nil)]

\* game_time_decoder (plugin.py:545-556) when it raises nothing.
GameTimeDecoder(cache) ==
    [k \in KeptKeys(cache) |->
        GameTime(cache[k].game_id, cache[k].time_played, GetLastPlayedTime(cache[k]))]

\* safe_decode (plugin.py:558-568) of a value the host handed back, with
\* whether it logged an exception: no value and an empty text give an empty
\* cache; a text json.loads cannot read and a decoder that raises give an
\* empty cache and a logged exception; "offers" has no decoder, "game_time"
\* has game_time_decoder.
SafeDecodeResult(stored, key) ==
    IF stored = Nil THEN [cache |-> EmptyCache, logged |-> FALSE]
    ELSE IF stored[1][key].kind \in {"absent", "empty"}
    THEN [cache |-> EmptyCache, logged |-> FALSE]
    ELSE IF stored[1][key].kind = "corrupt"
    THEN [cache |-> EmptyCache, logged |-> TRUE]
    ELSE LET cache == JsonLoads(stored[1][key])
         IN  IF key # "game_time" THEN [cache |-> cache, logged |-> FALSE]
             ELSE IF DecoderRaises(cache) THEN [cache |-> EmptyCache, logged |-> TRUE]
             ELSE [cache |-> GameTimeDecoder(cache), logged |-> FALSE]

SafeDecode(stored, key) == SafeDecodeResult(stored, key).cache

\* push_cache (plugin.py:227, 442): the host takes the two caches.
PushCache ==
    /\ galaxy_store = Nil
    /\ galaxy_store' = Some(EncodeCaches(offer_id_cache, game_time_cache))
    /\ UNCHANGED reloaded

\* The next start: the host hands the stored cache back and
\* handshake_complete decodes it (plugin.py:614-615).
ReloadCaches ==
    /\ reloaded = Nil
    /\ reloaded' = Some([offers |-> SafeDecode(galaxy_store, "offers"),
                         game_time |-> SafeDecode(galaxy_store, "game_time"),
                         pushed |-> galaxy_store # Nil,
                         logged |-> {key \in {"offers", "game_time"} :
                                        SafeDecodeResult(galaxy_store, key).logged}])
    /\ UNCHANGED galaxy_store

\* Any content of the two caches, nothing pushed yet.
PersistInit ==
    /\ offer_id_cache \in OfferCaches
    /\ offers_call = NoOffersCall
    /\ game_time_cache \in PlayTimeCaches
    /\ persistent_cache_updated = TRUE
    /\ game_time_call = NoGameTimeCall
    /\ galaxy_store = Nil
    /\ reloaded = Nil

\* The texts the host can hand back for a key of the persistent cache: none,
\* an empty one, one that json.loads cannot read, or the JSON text of a value.
AbsentText == [kind |-> "absent", text |-> <<>>]
EmptyText == [kind |-> "empty", text |-> <<>>]
CorruptText == [kind |-> "corrupt", text |-> <<>>]

\* The entries of a stored play-time cache: an empty object, the object of a
\* GameTime without or with its last-played time, and an object without its
\* time_played.
StoredEntries(k) ==
    {EmptyCache,
     [game_id |-> k, time_played |-> 13],
     [game_id |-> k, time_played |-> 13, last_played_time |-> 1],
     [game_id |-> k]}

StoredGameTimes ==
    UNION {{c \in [keys -> UNION {StoredEntries(k) : k \in keys}] :
               \A k \in keys : c[k] \in StoredEntries(k)} :
              keys \in SUBSET PersistedGameIds}

\* What the host holds at a start: any text under each of the two keys.
StoredCaches ==
    [offers : {AbsentText, EmptyText, CorruptText} \cup {JsonDumps(c) : c \in OfferCaches},
     game_time : {AbsentText, EmptyText, CorruptText}
                 \cup {JsonDumps(c) : c \in StoredGameTimes}]

ReloadInit ==
    /\ galaxy_store \in {Some(s) : s \in StoredCaches}
    /\ reloaded = Nil

\* Nothing pushed, nothing reloaded.
PersistIdle ==
    /\ galaxy_store = Nil
    /\ reloaded = Nil

-----------------------------------------------------------------------------
(* OriginBackendClient: what its calls make of the body of a response.     *)

\* The body of a response: a text that is no JSON, or a JSON document of
\* objects nested along `path', each with that one key, down to `leaf': an
\* object without the next key ("dict"), null, a string, or the list `items'.
JsonLeaves == {"dict", "null", "string"}

Prefixes(keys) == {SubSeq(keys, 1, n) : n \in 0..Len(keys)}

NotJson == [json |-> FALSE, path |-> <<>>, leaf |-> "null", items |-> <<>>]

JsonDocs(keys, lists) ==
    [json : {TRUE}, path : Prefixes(keys), leaf : JsonLeaves, items : {<<>>}]
    \cup [json : {TRUE}, path : {keys}, leaf : {"list"}, items : lists]

\* doc[k1][k2]...: KeyError from an object without the key, TypeError from a
\* value that is no object, else the value at the end of the path.
Subscript(doc, keys) ==
    IF doc.path = keys THEN "none"
    ELSE IF doc.leaf = "dict" THEN "KeyError"
    ELSE "TypeError"

\* The path of the owned game products (backend.py:188).
EntitlementsPath == <<"data", "me", "ownedGameProducts", "items">>

\* The bodies get_entitlements may get: the list holds no item or one.
EntitlementBodies ==
    {NotJson}
    \cup JsonDocs(EntitlementsPath, {<<>>} \cup {<<ent>> : ent \in Entitlements})

BackendResult(raised, value, logged) ==
    [raised |-> raised, value |-> value, logged |-> logged]

\* The handler of get_entitlements (backend.py:189-191).  Its logging call
\* takes `await d1.text()' for argument, which is evaluated first: d1 is
\* unbound when r1.json() raised, and a dict, without a text attribute,
\* when a key was missing.  Nothing is logged and no raise is reached.
EntitlementsHandler(bound) ==
    IF bound THEN BackendResult("AttributeError", Nil, <<>>)
    ELSE BackendResult("UnboundLocalError", Nil, <<>>)

\* get_entitlements (backend.py:182-191) from the response of its get on.
\* r1.json() raises a ValueError on a text that is no JSON; the handler
\* catches ValueError and KeyError only.
ParseEntitlements(body) ==
    IF ~body.json THEN EntitlementsHandler(FALSE)
    ELSE LET raised == Subscript(body, EntitlementsPath)
         IN  IF raised = "KeyError" THEN EntitlementsHandler(TRUE)
             ELSE IF raised # "none" THEN BackendResult(raised, Nil, <<>>)
             ELSE BackendResult("none", Some([leaf |-> body.leaf, items |-> body.items]), <<>>)

GetEntitlements ==
    /\ backend_result = Nil
    /\ backend_response \in EntitlementBodies
    /\ backend_result' = Some(ParseEntitlements(backend_response))
    /\ UNCHANGED backend_response

EntitlementsInit ==
    /\ backend_response \in EntitlementBodies
    /\ backend_result = Nil

\* The path of the recent games (backend.py:298).
RecentGamesPath == <<"data", "me", "recentGames", "items">>

\* lastSessionEndDate of an item: a date of the expected format, a date of
\* another format, or no such key.
SessionEndDates == {"2024-02-29T16:00:23.000Z", "2024-02-29 16:00:23", "absent"}

\* The items of recentGames: totalPlayTimeSeconds and lastSessionEndDate.
RecentGames == [totalPlayTimeSeconds : 0..MaxSeconds, lastSessionEndDate : SessionEndDates]

\* The bodies get_game_time may get: the list holds no item or one.
GameTimeBodies ==
    {NotJson}
    \cup JsonDocs(RecentGamesPath, {<<>>} \cup {<<item>> : item \in RecentGames})

\* A conversion that drops the seconds over the last whole minute.
PyRoundDown(n, d) == n \div d

\* round(n / d) of Python for integers n >= 0 and d > 0 with d even: to the
\* nearest integer, a half to the even one (backend.py:301).
PyRound(n, d) ==
    LET q == n \div d
        r == n % d
    IN  IF 2 * r < d THEN q
        ELSE IF 2 * r > d THEN q + 1
        ELSE IF q % 2 = 0 THEN q ELSE q + 1

\* parse_last_played_time (backend.py:289-295) on a date of the format:
\* the seconds since 1970-01-01.
ParseLastPlayedTime(date) == 1709222423

\* get_game_time (backend.py:261-308) from the response of its get on.  The
\* handler catches AttributeError, ValueError and KeyError, logs the text of
\* the response and raises UnknownBackendResponse; a TypeError passes.
ParseGameTime(body) ==
    LET malformed == BackendResult("UnknownBackendResponse", Nil, <<"exception">>)
    IN  IF ~body.json THEN malformed
        ELSE IF Subscript(body, RecentGamesPath) = "KeyError" THEN malformed
        ELSE IF Subscript(body, RecentGamesPath) # "none"
        THEN BackendResult(Subscript(body, RecentGamesPath), Nil, <<>>)
        ELSE IF body.leaf \in {"dict", "null"} \/ (body.leaf = "list" /\ body.items = <<>>)
        THEN BackendResult("none", Some([time_played |-> 0, last_played_time |-> Nil]), <<>>)
        ELSE IF body.leaf = "string" THEN BackendResult("TypeError", Nil, <<>>)
        ELSE LET item == body.items[1]
                 total_play_time == PyRound(item.totalPlayTimeSeconds, 60)
             IN  IF item.lastSessionEndDate = "absent" THEN malformed
                 ELSE IF item.lastSessionEndDate # "2024-02-29T16:00:23.000Z" THEN malformed
                 ELSE BackendResult("none",
                         Some([time_played |-> total_play_time,
                               last_played_time |->
                                   Some(ParseLastPlayedTime(item.lastSessionEndDate))]),
                         <<>>)

GetGameTime ==
    /\ backend_result = Nil
    /\ backend_response \in GameTimeBodies
    /\ backend_result' = Some(ParseGameTime(backend_response))
    /\ UNCHANGED backend_response

BackendGameTimeInit ==
    /\ backend_response \in GameTimeBodies
    /\ backend_result = Nil

\* No call of the backend client.
BackendIdle ==
    /\ backend_response = NotJson
    /\ backend_result = Nil

-----------------------------------------------------------------------------
(* OriginPlugin.prepare_achievements_context, plugin.py:160-178.           *)

\* The game ids of a batch, in order.
BatchGameIds ==
    <<<<"OFR1">>, <<"OFR2", "@", "steam">>, <<"OFR3", "@", "epic">>, <<"OFR4">>>>

\* What the two calls of the backend can raise for one game: a malformed
\* response, access denied, a backend error, and a TypeError.
ContextFailures == {"UnknownBackendResponse", "AccessDenied", "BackendError", "TypeError"}

\* How the backend answers for one game: no achievement set, a set and its
\* achievements, or a failure of get_achievement_set or of get_achievements.
GameAnswers ==
    [set : {"None", "ok"}, achievements : {"ok"}]
    \cup [set : ContextFailures, achievements : {"ok"}]
    \cup [set : {"ok"}, achievements : ContextFailures]

ContextBatches == UNION {[1..n -> GameAnswers] : n \in 1..MaxBatch}

SetIdOf(offer) == <<"SET">> \o offer

\* The loop of prepare_achievements_context (plugin.py:164-174) from game i
\* on: `except TypeError' is its only handler, so every other exception
\* leaves the loop and the call.  The set is recorded before the
\* achievements are fetched, and `achievements' is assigned, not merged.
RECURSIVE ContextLoop(_, _, _, _)
ContextLoop(batch, i, achievement_sets, achievements) ==
    IF i > Len(batch)
    THEN [raised |-> "none", owned_games |-> achievement_sets,
          achievements |-> achievements]
    ELSE LET offer == OfferIdFromGameId(BatchGameIds[i])
             a == batch[i]
             failed == [raised |-> IF a.set \in ContextFailures THEN a.set
                                   ELSE a.achievements,
                        owned_games |-> EmptyCache, achievements |-> Nil]
         IN  IF a.set = "None"
             THEN ContextLoop(batch, i + 1, achievement_sets, achievements)
             ELSE IF a.set = "TypeError"
             THEN ContextLoop(batch, i + 1, achievement_sets, achievements)
             ELSE IF a.set # "ok" THEN failed
             ELSE IF a.achievements = "ok"
             THEN ContextLoop(batch, i + 1, Put(achievement_sets, offer, SetIdOf(offer)),
                              Some(SetIdOf(offer)))
             ELSE IF a.achievements = "TypeError"
             THEN ContextLoop(batch, i + 1, Put(achievement_sets, offer, SetIdOf(offer)),
                              achievements)
             ELSE failed

\* prepare_achievements_context (plugin.py:160-178), authenticated.
PrepareAchievementsContext ==
    /\ context_result = Nil
    /\ context_batch # <<>>
    /\ context_result' = Some(ContextLoop(context_batch, 1, EmptyCache, Nil))
    /\ UNCHANGED context_batch

ContextInit ==
    /\ context_batch \in ContextBatches
    /\ context_result = Nil

\* No context asked for.
ContextIdle ==
    /\ context_batch = <<>>
    /\ context_result = Nil

-----------------------------------------------------------------------------
(* One local-games pass, from LocalGames.update to what the host is told:  *)
(* plugin.py:296-308 and 310-321, local_games.py:232-250.                  *)

\* The lists of local games of a pass: no game, one, or two of different ids.
PassLists ==
    {<<>>}
    \cup {<<LocalGame(id, st)>> : id \in {"A", "B"}, st \in LocalGameStates}
    \cup {<<LocalGame(a, s), LocalGame(b, t)>> :
             a \in {"A"}, b \in {"B"}, s \in LocalGameStates, t \in LocalGameStates}

\* A pass of tick that tells the host of the first change only.
TickPassNotifiesFirstOnly ==
    /\ pass_origin = "tick"
    /\ changes # Nil
    /\ pass_result = Nil
    /\ pass_result' = Some([returned |-> Nil,
                            notifications |->
                                IF changes[1] = <<>> THEN <<>>
                                ELSE <<Head(changes[1])>>])
    /\ UNCHANGED pass_origin

\* notify_local_games_changed after LocalGames.update (plugin.py:315-321):
\* update_local_game_status is called with every entry of notify_list, in
\* order.
TickPassNotifies ==
    /\ pass_origin = "tick"
    /\ changes # Nil
    /\ pass_result = Nil
    /\ pass_result' = Some([returned |-> Nil, notifications |-> changes[1]])
    /\ UNCHANGED pass_origin

\* get_local_games after LocalGames.update (plugin.py:304-308): the new list
\* is returned; the second value of update, the changes, is dropped.
GetLocalGamesReturns ==
    /\ pass_origin = "get_local_games"
    /\ changes # Nil
    /\ pass_result = Nil
    /\ pass_result' = Some([returned |-> Some(new_list), notifications |-> <<>>])
    /\ UNCHANGED pass_origin

\* A pass of either origin, LocalGames holding old_list and the manifest
\* giving new_list.
NotifyInit ==
    /\ old_list \in PassLists
    /\ new_list \in PassLists
    /\ changes = Nil
    /\ pass_origin \in {"tick", "get_local_games"}
    /\ pass_result = Nil

\* No pass.
NotifyIdle ==
    /\ pass_origin = "none"
    /\ pass_result = Nil

-----------------------------------------------------------------------------
(* The import of the game times: prepare_game_times_context and the cache  *)
(* lookup of get_game_time, plugin.py:409-438.                             *)

\* The game ids of a batch; their offer ids have one part.
TimesGameIds == {<<"OFR1">>, <<"OFR2", "@", "steam">>}

TimesBatches == UNION {[1..n -> TimesGameIds] : n \in 1..MaxBatch}

\* The key of the offer cache for a game id (plugin.py:411, 422).
OfferKey(gid) == OfferIdFromGameId(gid)[1]

\* What get_lastplayed_games (backend.py:348-376) gives for the slugs asked:
\* an exception, or a timestamp for some of them.
LastPlayedAnswers(slugs) ==
    {[raised |-> "BackendError", games |-> EmptyCache]}
    \cup {[raised |-> "none", games |-> [s \in played |-> 1]] : played \in SUBSET slugs}

\* A subscript that gives None for a key the dict does not hold.
LookupOrNone(cache, key) ==
    IF key \in DOMAIN cache THEN [raised |-> "none", value |-> Some(cache[key])]
    ELSE [raised |-> "none", value |-> Nil]

\* self._offer_id_cache[offer_id] (plugin.py:412): KeyError for a key the
\* dict does not hold.
Lookup(cache, key) ==
    IF key \in DOMAIN cache THEN [raised |-> "none", value |-> Some(cache[key])]
    ELSE [raised |-> "KeyError", value |-> Nil]

\* The comprehension of plugin.py:412 from offer i on: the slugs of the
\* offers that have one, or the first exception of a subscript.
RECURSIVE GameSlugs(_, _, _)
GameSlugs(cache, offer_ids, i) ==
    IF i > Len(offer_ids) THEN [raised |-> "none", slugs |-> <<>>]
    ELSE LET found == Lookup(cache, offer_ids[i])
             rest == GameSlugs(cache, offer_ids, i + 1)
         IN  IF found.raised # "none" THEN [raised |-> found.raised, slugs |-> <<>>]
             ELSE IF rest.raised # "none" THEN rest
             ELSE IF "gameSlug" \in DOMAIN found.value[1]
             THEN [raised |-> "none", slugs |-> <<found.value[1].gameSlug>> \o rest.slugs]
             ELSE rest

\* What a call of prepare_game_times_context gave.
TimesContext(raised, last_played_games, fetched) ==
    [raised |-> raised, last_played_games |-> last_played_games, fetched |-> fetched]

\* prepare_game_times_context (plugin.py:409-419): the check of the
\* authentication, the offer ids, the slugs read from the offer cache, then
\* _get_offers and get_lastplayed_games gathered.  _get_offers fetches the
\* offers the cache does not hold (plugin.py:200-212): `fetched' is their
\* list.
PrepareGameTimesContext ==
    /\ times_context = Nil
    /\ LET offer_ids == [i \in DOMAIN times_batch |-> OfferKey(times_batch[i])]
           slugs == GameSlugs(offer_id_cache, offer_ids, 1)
       IN  IF ~is_authenticated
           THEN times_context' = Some(TimesContext("AuthenticationRequired", EmptyCache, <<>>))
           ELSE IF slugs.raised # "none"
           THEN times_context' = Some(TimesContext(slugs.raised, EmptyCache, <<>>))
           ELSE \E answer \in LastPlayedAnswers({slugs.slugs[k] : k \in DOMAIN slugs.slugs}) :
                    times_context' =
                        Some(TimesContext(answer.raised, answer.games,
                                          MissingOffers(offer_id_cache, offer_ids)))
    /\ UNCHANGED <<times_batch, game_time_lookup>>

\* get_game_time (plugin.py:421-427) for game i of the batch, once the
\* context is there: the offer is looked up with .get, and an offer that is
\* not in the cache is logged and raises UnknownError.
GetGameTimeLookup(i) ==
    /\ times_context # Nil
    /\ times_context[1].raised = "none"
    /\ i \in DOMAIN times_batch
    /\ game_time_lookup[i] = "none"
    /\ game_time_lookup' =
           [game_time_lookup EXCEPT ![i] =
               IF LookupOrNone(offer_id_cache, OfferKey(times_batch[i])).value = Nil
               THEN "UnknownError" ELSE "found"]
    /\ UNCHANGED <<times_batch, times_context>>

\* A batch of game ids, and no call yet.
TimesInit ==
    /\ times_batch \in TimesBatches
    /\ times_context = Nil
    /\ game_time_lookup = [i \in DOMAIN times_batch |-> "none"]

\* No import of game times.
TimesIdle ==
    /\ times_batch = <<>>
    /\ times_context = Nil
    /\ game_time_lookup = <<>>

\* The plugin when the host asks for the game times: authenticated or not,
\* with an offer cache that holds any of the offers.
TimesPluginInit ==
    /\ access_token \in {Nil, Some(<<"TOK1">>)}
    /\ cookie_jar = EmptyJar
    /\ stored_cookies = Nil
    /\ auth_lost_callback = TRUE
    /\ cookies_updated_callback = TRUE
    /\ save_lats_callback = FALSE
    /\ last_access_token_success = Nil
    /\ persistent_lats = Nil
    /\ now = 0
    /\ pc = [c \in Callers |-> "idle"]
    /\ op = [c \in Callers |-> NoOp]
    /\ trace = [c \in Callers |-> <<>>]
    /\ result = [c \in Callers |-> "none"]
    /\ response = [c \in Callers |-> NoResponse]
    /\ offer_id_cache \in OfferCaches
    /\ offers_call = NoOffersCall

-----------------------------------------------------------------------------
(* The library settings: get_game_library_settings, plugin.py:456-462.     *)
(* A string is the sequence of its characters.                             *)

\* Two offer ids, as OFR1 and OFR2.
SettingsOfferIds == {<<"O", "F", "R", "1">>, <<"O", "F", "R", "2">>}

\* The suffixes get_game_id gives a game id (plugin.py:232-240) and the one
\* of a game of the subscription.
AtSteam == <<"@", "s", "t", "e", "a", "m">>
AtEpic == <<"@", "e", "p", "i", "c">>
AtSubscription == <<"@", "s", "u", "b", "s", "c", "r", "i", "p", "t", "i", "o", "n">>
Suffixes == {<<>>, AtSteam, AtEpic, AtSubscription}

SettingsGameIds == {offer \o suffix : offer \in SettingsOfferIds, suffix \in Suffixes}

\* str.strip(chars): the longest run of characters of `chars' is taken off
\* each end of the string (`set' is the set of the characters of chars).
RECURSIVE LStrip(_, _)
LStrip(s, chars) ==
    IF s # <<>> /\ Head(s) \in chars THEN LStrip(Tail(s), chars) ELSE s
RECURSIVE RStrip(_, _)
RStrip(s, chars) ==
    IF s # <<>> /\ s[Len(s)] \in chars THEN RStrip(SubSeq(s, 1, Len(s) - 1), chars) ELSE s
PyStrip(s, chars) ==
    LET set == {chars[i] : i \in DOMAIN chars}
    IN  RStrip(LStrip(s, set), set)

\* game_id.strip("@subscription") (plugin.py:457).
NormalizedId(gid) == PyStrip(gid, AtSubscription)

GameLibrarySettings(gid, tags, hidden) == [game_id |-> gid, tags |-> tags, hidden |-> hidden]

\* get_game_library_settings (plugin.py:456-462).
GetGameLibrarySettings ==
    /\ settings_result = Nil
    /\ settings_game_id # <<>>
    /\ settings_result' =
           Some(GameLibrarySettings(
                    settings_game_id,
                    IF NormalizedId(settings_game_id) \in settings_context.favorite
                    THEN <<"favorite">> ELSE <<>>,
                    NormalizedId(settings_game_id) \in settings_context.hidden))
    /\ UNCHANGED <<settings_game_id, settings_context>>

\* A game id and the context prepare_game_library_settings_context built
\* (plugin.py:445-454): two sets of offer ids.
SettingsInit ==
    /\ settings_game_id \in SettingsGameIds
    /\ settings_context \in [favorite : SUBSET SettingsOfferIds,
                             hidden : SUBSET SettingsOfferIds]
    /\ settings_result = Nil

\* No settings asked for.
SettingsIdle ==
    /\ settings_game_id = <<>>
    /\ settings_context = [favorite |-> {}, hidden |-> {}]
    /\ settings_result = Nil

-----------------------------------------------------------------------------
(* The specifications.                                                     *)

\* What the actions of one part of the plugin leave alone: every other part.
OnlyClient ==
    UNCHANGED <<offerVars, gameTimeVars, diffVars, schedVars, gameIdVars,
                achievementVars, localVars, persistVars, backendVars,
                contextVars, notifyVars, timesVars, settingsVars>>
OnlyOffers ==
    UNCHANGED <<httpVars, callVars, gameTimeVars, diffVars, schedVars,
                gameIdVars, achievementVars, localVars, persistVars,
                backendVars, contextVars, notifyVars, timesVars,
                settingsVars>>
OnlyGameTime ==
    UNCHANGED <<httpVars, callVars, offerVars, diffVars, schedVars,
                gameIdVars, achievementVars, localVars, persistVars,
                backendVars, contextVars, notifyVars, timesVars,
                settingsVars>>
OnlyGameTimeAndStore ==
    UNCHANGED <<httpVars, callVars, offerVars, diffVars, schedVars,
                gameIdVars, achievementVars, localVars, backendVars,
                contextVars, notifyVars, timesVars, settingsVars>>
OnlyDiff ==
    UNCHANGED <<httpVars, callVars, offerVars, gameTimeVars, schedVars,
                gameIdVars, achievementVars, localVars, persistVars,
                backendVars, contextVars, notifyVars, timesVars,
                settingsVars>>
OnlySched ==
    UNCHANGED <<httpVars, callVars, offerVars, gameTimeVars, diffVars,
                gameIdVars, achievementVars, localVars, persistVars,
                backendVars, contextVars, notifyVars, timesVars,
                settingsVars>>
OnlyGameId ==
    UNCHANGED <<httpVars, callVars, offerVars, gameTimeVars, diffVars,
                schedVars, achievementVars, localVars, persistVars,
                backendVars, contextVars, notifyVars, timesVars,
                settingsVars>>
OnlyAchievements ==
    UNCHANGED <<httpVars, callVars, offerVars, gameTimeVars, diffVars,
                schedVars, gameIdVars, localVars, persistVars, backendVars,
                contextVars, notifyVars, timesVars, settingsVars>>
OnlyLocal ==
    UNCHANGED <<httpVars, callVars, offerVars, gameTimeVars, diffVars,
                schedVars, gameIdVars, achievementVars, persistVars,
                backendVars, contextVars, notifyVars, timesVars,
                settingsVars>>
OnlyPersist ==
    UNCHANGED <<httpVars, callVars, offerVars, gameTimeVars, diffVars,
                schedVars, gameIdVars, achievementVars, localVars,
                backendVars, contextVars, notifyVars, timesVars,
                settingsVars>>
OnlyBackend ==
    UNCHANGED <<httpVars, callVars, offerVars, gameTimeVars, diffVars,
                schedVars, gameIdVars, achievementVars, localVars,
                persistVars, contextVars, notifyVars, timesVars,
                settingsVars>>
OnlyContext ==
    UNCHANGED <<httpVars, callVars, offerVars, gameTimeVars, diffVars,
                schedVars, gameIdVars, achievementVars, localVars,
                persistVars, backendVars, notifyVars, timesVars,
                settingsVars>>
OnlyNotify ==
    UNCHANGED <<httpVars, callVars, offerVars, gameTimeVars, diffVars,
                schedVars, gameIdVars, achievementVars, localVars,
                persistVars, backendVars, contextVars, timesVars,
                settingsVars>>
OnlyTimes ==
    UNCHANGED <<httpVars, callVars, offerVars, gameTimeVars, diffVars,
                schedVars, gameIdVars, achievementVars, localVars,
                persistVars, backendVars, contextVars, notifyVars,
                settingsVars>>
OnlySettings ==
    UNCHANGED <<httpVars, callVars, offerVars, gameTimeVars, diffVars,
                schedVars, gameIdVars, achievementVars, localVars,
                persistVars, backendVars, contextVars, notifyVars, timesVars>>

\* The plugin after OriginPlugin.__init__ (plugin.py:77-101).
PluginInit == ClientInit /\ OffersInit /\ GameTimeInit /\ SchedInit

\* The HTTP client, one call at a time.
Init ==
    /\ PluginInit /\ DiffIdle /\ GameIdIdle /\ AchievementsIdle
    /\ LocalIdle /\ PersistIdle /\ BackendIdle /\ ContextIdle /\ NotifyIdle /\ TimesIdle /\ SettingsIdle
Next ==
    \/ \E c \in Callers, cookies \in CookieSets :
           AuthenticateCall(c, cookies) /\ OnlyClient
    \/ \E c \in Callers, resp \in TokenResponses :
           AuthenticateResponse(c, resp) /\ OnlyClient
    \/ \E c \in Callers :
           GetCall(c) /\ OnlyClient
    \/ \E c \in Callers, outcome \in GetOutcomes :
           GetFirstResponse(c, outcome) /\ OnlyClient
    \/ \E c \in Callers, resp \in TokenResponses :
           RefreshResponse(c, resp) /\ OnlyClient
    \/ \E c \in Callers, outcome \in GetOutcomes :
           GetRetryResponse(c, outcome) /\ OnlyClient
    \/ \E c \in Callers :
           Return(c) /\ OnlyClient
    \/ HandshakeComplete /\ OnlyClient
    \/ Tick /\ OnlyClient
Spec == Init /\ [][Next]_vars

\* The offer cache.
NextOffers ==
    \/ \E ids \in OfferIdLists :
           GetOffersCall(ids) /\ OnlyOffers
    \/ \E outs \in UNION {[1..n -> AllFetchOutcomes] : n \in 1..MaxOffers} :
           GetOffersGathered(outs) /\ OnlyOffers
    \/ GetOffersRepeat /\ OnlyOffers
    \/ OffersReturn /\ OnlyOffers
SpecOffers == Init /\ [][NextOffers]_vars

\* The play-time cache.
NextGameTime ==
    \/ \E id \in GameIds, lastplayed \in {Nil} \cup {Some(t) : t \in Stamps} :
           GameTimeCall(id, lastplayed) /\ OnlyGameTime
    \/ \E out \in GameTimeOutcomes :
           GameTimeFetched(out) /\ OnlyGameTime
    \/ GameTimeReturn /\ OnlyGameTime
    \/ GameTimesImportComplete /\ OnlyGameTimeAndStore
SpecGameTime == Init /\ [][NextGameTime]_vars

\* get_state_changes on every pair of lists.
InitDiff ==
    /\ PluginInit /\ DiffInit /\ GameIdIdle /\ AchievementsIdle
    /\ LocalIdle /\ PersistIdle /\ BackendIdle /\ ContextIdle /\ NotifyIdle /\ TimesIdle /\ SettingsIdle
NextDiff == GetStateChanges /\ OnlyDiff
SpecDiff == InitDiff /\ [][NextDiff]_vars

\* The local-games passes.
NextSched ==
    \/ \E d \in Delays :
           TickCall(d) /\ OnlySched
    \/ \E p \in 1..MaxCalls :
           PassStart(p) /\ OnlySched
    \/ \E d \in Delays :
           GetLocalGamesCall(d) /\ OnlySched
    \/ \E p \in 1..MaxCalls, outcome \in {"returned", "raised"}, d \in Delays :
           PassEnd(p, outcome, d) /\ OnlySched
SpecSched == Init /\ [][NextSched]_vars

\* The local-games passes, where a pass that was launched starts and a pass
\* that runs ends: the event loop runs every task it holds and the executor
\* every call it was handed.
FairSched ==
    /\ WF_vars(\E p \in 1..MaxCalls :
                   PassStart(p) /\ OnlySched)
    /\ WF_vars(\E p \in 1..MaxCalls, outcome \in {"returned", "raised"}, d \in Delays :
                   PassEnd(p, outcome, d) /\ OnlySched)
SpecSchedFair == Init /\ [][NextSched]_vars /\ FairSched

\* The game id of every entitlement.
InitGameId ==
    /\ PluginInit /\ DiffIdle /\ GameIdInit /\ AchievementsIdle
    /\ LocalIdle /\ PersistIdle /\ BackendIdle /\ ContextIdle /\ NotifyIdle /\ TimesIdle /\ SettingsIdle
NextGameId ==
    \/ DeriveGameId /\ OnlyGameId
    \/ StripGameId /\ OnlyGameId
SpecGameId == InitGameId /\ [][NextGameId]_vars


\* The achievements of every response.
InitAchievements ==
    /\ PluginInit /\ DiffIdle /\ GameIdIdle /\ AchievementsInit
    /\ LocalIdle /\ PersistIdle /\ BackendIdle /\ ContextIdle /\ NotifyIdle /\ TimesIdle /\ SettingsIdle
NextAchievements == GetAchievements /\ OnlyAchievements
SpecAchievements == InitAchievements /\ [][NextAchievements]_vars


\* The local games, from the construction of LocalGames on.
InitLocal ==
    /\ PluginInit /\ DiffIdle /\ GameIdIdle /\ AchievementsIdle
    /\ LocalInit /\ PersistIdle /\ BackendIdle /\ ContextIdle /\ NotifyIdle /\ TimesIdle /\ SettingsIdle
NextLocal ==
    \/ \E launch \in LaunchOutcomes : LocalGamesConstruct(launch) /\ OnlyLocal
    \/ \E launch \in LaunchOutcomes : LocalGamesUpdate(launch) /\ OnlyLocal
    \/ IsJsonWritten /\ OnlyLocal
    \/ IsWithOfferJsonWritten /\ OnlyLocal
    \/ IsWithOfferJsonRemoved /\ OnlyLocal
    \/ \E infos \in Manifests : ManifestRewritten(infos) /\ OnlyLocal
SpecLocal == InitLocal /\ [][NextLocal]_vars


\* The two caches across a restart.
InitPersist ==
    /\ ClientInit /\ SchedInit /\ DiffIdle /\ GameIdIdle /\ AchievementsIdle /\ LocalIdle
    /\ PersistInit /\ BackendIdle /\ ContextIdle /\ NotifyIdle /\ TimesIdle /\ SettingsIdle
NextPersist ==
    \/ PushCache /\ OnlyPersist
    \/ ReloadCaches /\ OnlyPersist
SpecPersist == InitPersist /\ [][NextPersist]_vars

\* The gets of one batched offer fetch, run concurrently by asyncio.gather:
\* each step of each get is one step of the event loop.
InitGathered ==
    /\ ClientGathered /\ OffersInit /\ GameTimeInit /\ SchedInit /\ DiffIdle
    /\ GameIdIdle /\ AchievementsIdle /\ LocalIdle /\ PersistIdle /\ BackendIdle /\ ContextIdle /\ NotifyIdle /\ TimesIdle /\ SettingsIdle
NextGathered ==
    \/ \E c \in GatheredGets :
           GetCall(c) /\ OnlyClient
    \/ \E c \in GatheredGets, outcome \in GetOutcomes :
           GetFirstResponse(c, outcome) /\ OnlyClient
    \/ \E c \in GatheredGets, resp \in TokenResponses :
           RefreshResponse(c, resp) /\ OnlyClient
    \/ \E c \in GatheredGets, outcome \in GetOutcomes :
           GetRetryResponse(c, outcome) /\ OnlyClient
SpecGathered == InitGathered /\ [][NextGathered]_vars

\* get_entitlements on every body.
InitEntitlements ==
    /\ PluginInit /\ DiffIdle /\ GameIdIdle /\ AchievementsIdle
    /\ LocalIdle /\ PersistIdle /\ EntitlementsInit /\ ContextIdle /\ NotifyIdle /\ TimesIdle /\ SettingsIdle
NextEntitlements ==
    \/ GetEntitlements /\ OnlyBackend
SpecEntitlements == InitEntitlements /\ [][NextEntitlements]_vars

\* prepare_achievements_context on every batch.
InitContext ==
    /\ PluginInit /\ DiffIdle /\ GameIdIdle /\ AchievementsIdle
    /\ LocalIdle /\ PersistIdle /\ BackendIdle /\ ContextInit /\ NotifyIdle /\ TimesIdle /\ SettingsIdle
NextContext ==
    \/ PrepareAchievementsContext /\ OnlyContext
SpecContext == InitContext /\ [][NextContext]_vars

\* get_game_time on every body.
InitBackendGameTime ==
    /\ PluginInit /\ DiffIdle /\ GameIdIdle /\ AchievementsIdle
    /\ LocalIdle /\ PersistIdle /\ BackendGameTimeInit /\ ContextIdle /\ NotifyIdle /\ TimesIdle /\ SettingsIdle
NextBackendGameTime ==
    \/ GetGameTime /\ OnlyBackend
SpecBackendGameTime == InitBackendGameTime /\ [][NextBackendGameTime]_vars

\* The decoding of handshake_complete on every stored cache.
InitReload ==
    /\ PluginInit /\ DiffIdle /\ GameIdIdle /\ AchievementsIdle
    /\ LocalIdle /\ ReloadInit /\ BackendIdle /\ ContextIdle /\ NotifyIdle /\ TimesIdle /\ SettingsIdle
NextReload ==
    \/ ReloadCaches /\ OnlyPersist
SpecReload == InitReload /\ [][NextReload]_vars

\* One pass: LocalGames.update, then what its caller does with the changes.
InitNotify ==
    /\ PluginInit /\ GameIdIdle /\ AchievementsIdle /\ LocalIdle
    /\ PersistIdle /\ BackendIdle /\ ContextIdle /\ NotifyInit /\ TimesIdle /\ SettingsIdle
NextNotify ==
    \/ GetStateChanges /\ OnlyDiff
    \/ TickPassNotifies /\ OnlyNotify
    \/ GetLocalGamesReturns /\ OnlyNotify
SpecNotify == InitNotify /\ [][NextNotify]_vars

\* The import of the game times of one batch.
InitTimes ==
    /\ TimesPluginInit /\ GameTimeInit /\ SchedInit /\ DiffIdle /\ GameIdIdle /\ AchievementsIdle
    /\ LocalIdle /\ PersistIdle /\ BackendIdle /\ ContextIdle /\ NotifyIdle /\ TimesInit /\ SettingsIdle
NextTimes ==
    \/ PrepareGameTimesContext /\ OnlyTimes
    \/ \E i \in 1..MaxBatch :
           GetGameTimeLookup(i) /\ OnlyTimes
SpecTimes == InitTimes /\ [][NextTimes]_vars

\* The library settings of one game.
InitSettings ==
    /\ PluginInit /\ DiffIdle /\ GameIdIdle /\ AchievementsIdle /\ LocalIdle
    /\ PersistIdle /\ BackendIdle /\ ContextIdle /\ NotifyIdle /\ TimesIdle /\ SettingsInit
NextSettings == GetGameLibrarySettings /\ OnlySettings
SpecSettings == InitSettings /\ [][NextSettings]_vars

-----------------------------------------------------------------------------
(* The claims about the HTTP client, checked under Spec.                   *)

\* C1, as stated: whenever the first authorized request of a get fails with
\* AccessDenied or AuthenticationRequired, the finished call has made exactly
\* one refresh and exactly one retry (two authorized requests).
C1_ExactlyOneRefreshAndRetry ==
    \A c \in DOMAIN pc :
        (pc[c] = "done" /\ op[c].name = "get"
         /\ op[c].first \in {"AccessDenied", "AuthenticationRequired"})
        => /\ Count(trace[c], "refresh") = 1
           /\ Count(trace[c], "authorized_get") = 2

\* C1, amended: a get never issues more than two authorized requests nor more
\* than one refresh.  When its first request fails with AccessDenied or
\* AuthenticationRequired it makes exactly one refresh; if the refresh returns
\* it is followed by exactly one retry, whose outcome, success or failure, is
\* the outcome of the get; if the refresh raises, the get fails without a
\* retry.  After any other first outcome there is neither refresh nor retry.
C1_RefreshThenAtMostOneRetry ==
    \A c \in DOMAIN pc :
        op[c].name = "get" =>
            /\ Count(trace[c], "authorized_get") <= 2
            /\ Count(trace[c], "refresh") <= 1
            /\ pc[c] = "done" =>
                IF op[c].first \in {"AccessDenied", "AuthenticationRequired"}
                THEN /\ Count(trace[c], "refresh") = 1
                     /\ Count(trace[c], "token_request") = 1
                     /\ IF op[c].refresh = "ok"
                        THEN /\ Count(trace[c], "authorized_get") = 2
                             /\ Names(trace[c])[1] = "authorized_get"
                             /\ Names(trace[c])[2] = "refresh"
                             /\ Names(trace[c])[Len(trace[c])] = "authorized_get"
                             /\ op[c].retry # "none"
                             /\ result[c] = op[c].retry
                        ELSE /\ Count(trace[c], "authorized_get") = 1
                             /\ op[c].retry = "none"
                             /\ result[c] # "ok"
                ELSE /\ Count(trace[c], "refresh") = 0
                     /\ Count(trace[c], "authorized_get") <= 1

\* C1, its case: the first request was denied, the refresh returned, and the
\* retry was denied again; that second failure is the outcome of the get.
C1_Witness ==
    \E c \in DOMAIN pc :
        /\ pc[c] = "done" /\ op[c].name = "get"
        /\ op[c].first = "AccessDenied" /\ op[c].refresh = "ok"
        /\ op[c].retry = "AccessDenied" /\ result[c] = "AccessDenied"
        /\ Count(trace[c], "authorized_get") = 2

\* C2: a get called while no token is held ends at once with AccessDenied; it
\* sends no request, starts no refresh, and leaves the token, the cookies, the
\* stored cookies, the callbacks and the timestamps as they were.
C2_NoTokenFailsImmediately ==
    [][\A c \in DOMAIN pc :
         (pc[c] = "idle" /\ op'[c].name = "get" /\ access_token = Nil)
         => /\ pc'[c] = "done"
            /\ result'[c] = "AccessDenied"
            /\ trace'[c] = <<>>
            /\ UNCHANGED httpVars]_vars

\* C2, its case: a get that found no token has ended with AccessDenied.
C2_Witness ==
    \E c \in DOMAIN pc :
        /\ pc[c] = "done" /\ op[c].name = "get" /\ op[c].token0 = Nil
        /\ result[c] = "AccessDenied" /\ trace[c] = <<>>

\* C3, as stated: when the token request of a refresh fails with anything but
\* BackendTimeout, BackendNotAvailable or NetworkError, the token is cleared,
\* the session-lost callback is invoked exactly once and the get ends with
\* AccessDenied.
C3_NonTransientClearsSession ==
    \A c \in DOMAIN pc :
        (pc[c] = "done" /\ op[c].name = "get"
         /\ op[c].refresh \notin {"none", "ok", "BackendTimeout",
                                  "BackendNotAvailable", "NetworkError"})
        => /\ access_token = Nil
           /\ Count(trace[c], "auth_lost") = 1
           /\ result[c] = "AccessDenied"

\* C3, amended: when the token request of a refresh fails with anything but
\* BackendTimeout, BackendNotAvailable, NetworkError or BackendError, the
\* token is cleared, the session-lost callback is invoked exactly once and
\* the get ends with AccessDenied.
C3_OtherFailureClearsSession ==
    \A c \in DOMAIN pc :
        (pc[c] = "done" /\ op[c].name = "get"
         /\ op[c].refresh \notin {"none", "ok", "BackendTimeout",
                                  "BackendNotAvailable", "NetworkError",
                                  "BackendError"})
        => /\ access_token = Nil
           /\ Count(trace[c], "auth_lost") = 1
           /\ result[c] = "AccessDenied"

\* C3, its case: the refresh of a get that held a token was answered with the
\* login_required redirect, and the session is lost.
C3_Witness ==
    \E c \in DOMAIN pc :
        /\ pc[c] = "done" /\ op[c].name = "get" /\ op[c].token0 # Nil
        /\ op[c].refresh = "AuthenticationRequired"
        /\ access_token = Nil /\ result[c] = "AccessDenied"
        /\ Count(trace[c], "auth_lost") = 1

\* C4: when the token request of a refresh fails with BackendTimeout,
\* BackendNotAvailable or NetworkError, the get ends with that same error,
\* the token held before the refresh is still held, and the session-lost
\* callback is not invoked.
C4_TransientFailurePropagates ==
    \A c \in DOMAIN pc :
        (pc[c] = "done" /\ op[c].name = "get"
         /\ op[c].refresh \in {"BackendTimeout", "BackendNotAvailable", "NetworkError"})
        => /\ result[c] = op[c].refresh
           /\ access_token = op[c].token0
           /\ access_token # Nil
           /\ Count(trace[c], "auth_lost") = 0

\* C4, its case: a refresh timed out, the get ended with BackendTimeout and
\* the token is the one held before.
C4_Witness ==
    \E c \in DOMAIN pc :
        /\ pc[c] = "done" /\ op[c].name = "get"
        /\ op[c].refresh = "BackendTimeout" /\ result[c] = "BackendTimeout"
        /\ access_token = op[c].token0 /\ access_token # Nil

\* C5, as stated: after authenticate returns, is_authenticated() is true if
\* and only if the Location of this token request held access_token.
C5_AuthenticatedIffTokenInRedirect ==
    \A c \in DOMAIN pc :
        (pc[c] = "done" /\ op[c].name = "authenticate" /\ result[c] = "ok")
        => (is_authenticated <=> Contains(response[c].location[1], "access_token"))

\* C5, amended: after authenticate returns, is_authenticated() is true if and
\* only if the Location of this token request held access_token or a token
\* of an earlier acquisition was held when authenticate was called.
C5_AuthenticatedIffTokenInRedirectOrHeld ==
    \A c \in DOMAIN pc :
        (pc[c] = "done" /\ op[c].name = "authenticate" /\ result[c] = "ok")
        => (is_authenticated <=>
                (Contains(response[c].location[1], "access_token")
                 \/ op[c].token0 # Nil))

\* C5, its case: authenticate was called with a token held, the redirect had
\* neither access_token nor login_required, and authenticate returned.
C5_Witness ==
    \E c \in DOMAIN pc :
        /\ pc[c] = "done" /\ op[c].name = "authenticate" /\ result[c] = "ok"
        /\ op[c].token0 # Nil
        /\ response[c].location = Some(LocNeither)
        /\ is_authenticated

\* C6: an authenticate whose redirect holds error=login_required and no
\* access_token ends with AuthenticationRequired; the cookies it was given
\* are in the jar (those of other names are kept); and between the token
\* request and the error exactly one session log entry was written: the
\* snapshot when the utag_main cookie has its _st and ses_id fields, the
\* warning of a failed snapshot otherwise.
C6_LoginRequiredLogsThenRaises ==
    \A c \in DOMAIN pc :
        (/\ pc[c] = "done" /\ op[c].name = "authenticate"
         /\ response[c].location # Nil
         /\ ContainsPair(response[c].location[1], "error", "login_required")
         /\ ~Contains(response[c].location[1], "access_token"))
        => /\ result[c] = "AuthenticationRequired"
           /\ DOMAIN cookie_jar = DOMAIN op[c].jar0 \cup DOMAIN op[c].cookies
           /\ \A n \in DOMAIN op[c].cookies : cookie_jar[n] = op[c].cookies[n]
           /\ \A n \in DOMAIN op[c].jar0 \ DOMAIN op[c].cookies :
                  cookie_jar[n] = op[c].jar0[n]
           /\ LET entry == IF "utag_main" \in DOMAIN cookie_jar
                              /\ cookie_jar["utag_main"] = UtagGood
                           THEN "log_info_session" ELSE "log_warning_session"
              IN  Names(trace[c]) \in
                    { <<"update_cookies", "token_request", entry>>,
                      <<"update_cookies", "cookies_updated", "token_request", entry>> }

\* C6, its case: the jar has no usable utag_main cookie, the snapshot failed,
\* and authenticate still ended with AuthenticationRequired.
C6_Witness ==
    \E c \in DOMAIN pc :
        /\ pc[c] = "done" /\ op[c].name = "authenticate"
        /\ response[c].location = Some(LocLoginRequired)
        /\ "utag_main" \in DOMAIN cookie_jar
        /\ cookie_jar["utag_main"] = UtagNoColon
        /\ result[c] = "AuthenticationRequired"
        /\ Names(trace[c])[Len(trace[c])] = "log_warning_session"

-----------------------------------------------------------------------------
(* The offer cache.                                                        *)

Range(seq) == {seq[i] : i \in DOMAIN seq}

\* The fetch of the i-th missing id gave a pair with both parts.
Usable(outs, i) ==
    outs[i].exc = "none" /\ outs[i].legacy # Nil /\ outs[i].product # Nil

\* The number of log entries of a level.
Logged(log, level) == Cardinality({i \in DOMAIN log : log[i] = level})

\* C7 as stated: whatever the fetches of the first call gave, the second of
\* two successive calls of _get_offers with the same ids issues no fetch and
\* is served from the cache alone.
C7_SecondCallIssuesNoFetch ==
    offers_call.round = 2 =>
        /\ offers_call.missing = <<>>
        /\ offers_call.pc = "done"
        /\ DOMAIN offers_call.offers = Range(offers_call.ids)

\* C7, amended: the second of two successive calls of _get_offers with the
\* same ids fetches only ids the first call fetched without storing them
\* under the requested id (the fetch failed, gave no usable data, or was
\* reported under another id), and of these exactly those still absent from
\* the cache; when every fetch of the first call was stored under the id
\* asked for, the second call issues no fetch, flushes nothing and returns
\* every id from the cache.
C7_SecondCallFetchesOnlyUnstored ==
    offers_call.round = 2 =>
        /\ Range(offers_call.missing) \subseteq offers_call.first_unstored
        /\ offers_call.pc = "gather" =>
               Range(offers_call.missing) =
                   offers_call.first_unstored \ DOMAIN offer_id_cache
        /\ offers_call.first_unstored = {} =>
               /\ offers_call.missing = <<>>
               /\ offers_call.pc = "done"
               /\ offers_call.result = "ok"
               /\ ~offers_call.pushed
               /\ DOMAIN offers_call.offers = Range(offers_call.ids)
               /\ \A id \in Range(offers_call.ids) :
                      offers_call.offers[id] = offer_id_cache[id]

\* A second call that issued no fetch, after a first call that fetched two
\* ids and stored both.
C7_Witness ==
    /\ offers_call.round = 2
    /\ offers_call.pc = "done"
    /\ Len(offers_call.first_missing) >= 2
    /\ Cardinality(Range(offers_call.first_missing)) >= 2
    /\ offers_call.first_unstored = {}
    /\ offers_call.missing = <<>>

\* C8: when the fetch of a missing id fails or gives no usable data, the id
\* is logged and skipped and _get_offers still succeeds: one log entry per
\* such fetch, an error for a failure and a warning for unusable data; every
\* usable sibling is in the cache and in the result under the id its product
\* reports, so every sibling fetched under the id asked for is cached and
\* returned; the cache is flushed; and a skipped id is in the result only
\* when a sibling reported it.
C8_FailedFetchSkippedSiblingsStored ==
    (offers_call.pc = "done" /\ offers_call.outcomes # <<>>) =>
        LET outs == offers_call.outcomes
            missing == offers_call.missing
            failed == {i \in DOMAIN outs : outs[i].exc # "none"}
            unusable == {i \in DOMAIN outs : outs[i].exc = "none" /\ ~Usable(outs, i)}
        IN  /\ offers_call.result = "ok"
            /\ offers_call.pushed
            /\ Logged(offers_call.logged, "error") = Cardinality(failed)
            /\ Logged(offers_call.logged, "warning") = Cardinality(unusable)
            /\ Len(offers_call.logged) = Cardinality(failed \cup unusable)
            /\ \A i \in DOMAIN outs :
                   Usable(outs, i) =>
                       LET id == outs[i].product[1].originOfferId
                       IN  /\ id \in DOMAIN offer_id_cache
                           /\ id \in DOMAIN offers_call.offers
                           /\ offers_call.offers[id] = offer_id_cache[id]
                           /\ offer_id_cache[id].gameSlug = outs[i].product[1].gameSlug
            /\ \A i \in DOMAIN outs :
                   StoredAsAsked(missing, outs, i) =>
                       /\ missing[i] \in DOMAIN offer_id_cache
                       /\ missing[i] \in DOMAIN offers_call.offers
            /\ \A i \in failed \cup unusable :
                   missing[i] \in DOMAIN offers_call.offers =>
                       \E j \in DOMAIN outs :
                           Usable(outs, j) /\ outs[j].product[1].originOfferId = missing[i]

\* A batch of two ids: the fetch of the first failed, the second was stored.
C8_Witness ==
    /\ offers_call.pc = "done"
    /\ Len(offers_call.outcomes) >= 2
    /\ offers_call.missing[1] # offers_call.missing[2]
    /\ offers_call.outcomes[1].exc # "none"
    /\ StoredAsAsked(offers_call.missing, offers_call.outcomes, 2)
    /\ offers_call.missing[2] \in DOMAIN offers_call.offers
    /\ offers_call.missing[1] \notin DOMAIN offers_call.offers

-----------------------------------------------------------------------------
(* The play-time cache.                                                    *)

\* C9: a call of _get_game_times_for_master_title for a game whose cached
\* entry has a known last-played time T and a remote last-played time <= T
\* returns the cached record and fetches nothing; with a remote time > T, no
\* remote time, no entry or an entry of unknown last-played time it issues
\* exactly one fetch.
C9_FreshnessLaw ==
    game_time_call.pc \in {"fetch", "done"} =>
        LET entry == game_time_call.cached0
            remote == game_time_call.lastplayed
        IN  IF /\ entry # Nil
               /\ entry[1].last_played_time # Nil
               /\ remote # Nil
               /\ remote[1] <= entry[1].last_played_time[1]
            THEN /\ game_time_call.fetches = 0
                 /\ game_time_call.pc = "done"
                 /\ game_time_call.result = "ok"
                 /\ game_time_call.returned = entry
                 /\ game_time_cache[game_time_call.game_id] = entry[1]
            ELSE game_time_call.fetches = 1

\* A query with the very last-played time of the cached entry, served from
\* the cache.
C9_Witness ==
    /\ game_time_call.pc = "done"
    /\ game_time_call.cached0 # Nil
    /\ game_time_call.lastplayed # Nil
    /\ game_time_call.cached0[1].last_played_time = game_time_call.lastplayed
    /\ game_time_call.fetches = 0
    /\ game_time_call.returned = game_time_call.cached0

-----------------------------------------------------------------------------
(* get_state_changes.                                                      *)

\* No game id occurs twice in the list.
UniqueIds(list) ==
    \A i, j \in DOMAIN list : list[i].game_id = list[j].game_id => i = j

Ids(list) == {list[i].game_id : i \in DOMAIN list}

\* The entries the diff of two snapshots is to hold.
ExpectedChanges(old, new) ==
    {LocalGame(o.game_id, "None_") : o \in {x \in Range(old) : x.game_id \notin Ids(new)}}
    \cup {g \in Range(new) : g.game_id \notin Ids(old)}
    \cup {g \in Range(new) :
             \E o \in Range(old) :
                 o.game_id = g.game_id /\ o.local_game_state # g.local_game_state}

ExampleOld == <<LocalGame("A", "Installed"), LocalGame("B", "Running")>>
ExampleNew == <<LocalGame("B", "Installed"), LocalGame("C", "Installed")>>

\* C10: for snapshots of unique game ids, get_state_changes(old, new) holds,
\* once each, (id, None_) for every id of old not in new, (id, new state) for
\* every id of new not in old and for every id of both whose state differs,
\* and nothing else; for old {A: Installed, B: Running} and new
\* {B: Installed, C: Installed} it is {A: None_, B: Installed, C: Installed}.
C10_DiffIsExactlyTheTransitions ==
    changes # Nil =>
        /\ (UniqueIds(old_list) /\ UniqueIds(new_list)) =>
               /\ Range(changes[1]) = ExpectedChanges(old_list, new_list)
               /\ Len(changes[1]) = Cardinality(ExpectedChanges(old_list, new_list))
               /\ \A o \in Range(old_list), n \in Range(new_list) :
                      (o.game_id = n.game_id
                           /\ o.local_game_state = n.local_game_state) =>
                          o.game_id \notin Ids(changes[1])
        /\ (old_list = ExampleOld /\ new_list = ExampleNew) =>
               /\ Range(changes[1]) =
                      {LocalGame("A", "None_"), LocalGame("B", "Installed"),
                       LocalGame("C", "Installed")}
               /\ Len(changes[1]) = Cardinality(Range(changes[1]))

\* The diff of the example: one game removed, one changed, one added.
C10_Witness ==
    /\ changes # Nil
    /\ old_list = ExampleOld
    /\ new_list = ExampleNew
    /\ Len(changes[1]) = Cardinality(LocalGameIds)

-----------------------------------------------------------------------------
(* The local-games passes.                                                 *)

\* The calls of tick in call_log.
Ticks == {i \in DOMAIN call_log : call_log[i].kind = "tick"}

\* C11 as stated: of two calls of tick less than the minimum interval apart,
\* the second made before the pass launched by the first has ended, only the
\* first launches a pass.
C11_OverlappingTicksRunOnePass ==
    \A i, j \in Ticks :
        (/\ i < j
         /\ call_log[i].pass # 0
         /\ call_log[i].pass \in call_log[j].open
         /\ call_log[j].time - call_log[i].time < LOCAL_GAMES_CACHE_VALID_PERIOD)
            => call_log[j].pass = 0

\* C12: a pass that ends, whether LocalGames.update returned or raised,
\* leaves _local_games_update_in_progress false, and the flag, once set, is
\* reset at some later time.
C12_FlagResetOnEveryExit ==
    /\ local_games_update_in_progress ~> ~local_games_update_in_progress
    /\ [][(\E p \in DOMAIN passes :
               /\ passes[p].state = "running"
               /\ passes'[p].state \in {"returned", "raised"})
              => ~local_games_update_in_progress']_vars

\* A pass of tick and a pass of get_local_games have ended, one of them with
\* an exception, and the flag is reset.
C12_Witness ==
    /\ ~local_games_update_in_progress
    /\ \E p, q \in DOMAIN passes :
           /\ passes[p].origin = "tick"
           /\ passes[q].origin = "get_local_games"
           /\ {passes[p].state, passes[q].state} = {"returned", "raised"}

-----------------------------------------------------------------------------
(* Game ids.                                                               *)

\* C14: the game id of an entitlement is its offer id followed by @steam
\* when its first ownership method is STEAM, by @epic when it is EPIC and by
\* nothing otherwise, and _offer_id_from_game_id gives the offer id back;
\* OFR123 owned through STEAM gives OFR123@steam, which gives OFR123.
C14_GameIdRoundTrip ==
    /\ game_id # Nil =>
           game_id[1] =
               entitlement.originOfferId \o
                   CASE entitlement.ownershipMethods[1] = "STEAM" -> <<"@", "steam">>
                     [] entitlement.ownershipMethods[1] = "EPIC" -> <<"@", "epic">>
                     [] OTHER -> <<>>
    /\ offer_id_back # Nil => offer_id_back[1] = entitlement.originOfferId
    /\ (game_id # Nil /\ entitlement.originOfferId = <<"OFR123">>
            /\ entitlement.ownershipMethods = <<"STEAM">>) =>
           game_id[1] = <<"OFR123", "@", "steam">>

\* OFR123 owned through STEAM: OFR123@steam, and OFR123 back.
C14_Witness ==
    /\ entitlement # Nil
    /\ entitlement.originOfferId = <<"OFR123">>
    /\ entitlement.ownershipMethods = <<"STEAM">>
    /\ game_id = Some(<<"OFR123", "@", "steam">>)
    /\ offer_id_back = Some(<<"OFR123">>)

-----------------------------------------------------------------------------
(* Achievements.                                                           *)

\* The entry is awarded once.
AwardedOnce(a) == a.awardCount = 1

\* C15: get_achievements gives, for each achievement set of the response,
\* the entries of awardCount 1 and no other, in the order of the response;
\* an entry of awardCount 0, or of any other count, is left out.
C15_OnlyAwardedOnceInOrder ==
    (ach_result # Nil /\ ach_result[1].raised = "none") =>
        LET sets == ach_response[1]
            out == ach_result[1].achievement_sets
        IN  /\ DOMAIN out = {sets[i].id : i \in DOMAIN sets}
            /\ \A i \in DOMAIN sets :
                   LET unlocked == SelectSeq(sets[i].achievements, AwardedOnce)
                   IN  /\ Len(out[sets[i].id]) = Len(unlocked)
                       /\ \A k \in DOMAIN unlocked :
                              /\ out[sets[i].id][k].achievement_id = unlocked[k].id
                              /\ out[sets[i].id][k].achievement_name = NameOf(unlocked[k].id)
                              /\ out[sets[i].id][k].unlock_time
                                     = UnixTime(DateOf(unlocked[k].id))

\* A set of two entries, one awarded once and one awarded twice or never:
\* the result holds the first alone.
C15_Witness ==
    /\ ach_result # Nil
    /\ ach_result[1].raised = "none"
    /\ \E i \in DOMAIN ach_response[1] :
           LET s == ach_response[1][i]
           IN  /\ Len(s.achievements) = 2
               /\ s.achievements[1].awardCount # 1
               /\ s.achievements[2].awardCount = 1
               /\ Len(ach_result[1].achievement_sets[s.id]) = 1

-----------------------------------------------------------------------------
(* Local games.                                                            *)

\* C16 as stated: with the install manifest missing or unreadable, neither
\* the construction of LocalGames nor LocalGames.update raises, and the
\* local games are the empty list.
C16_MissingManifestGivesEmptySet ==
    (local_games_last.op # "none" /\ local_games_last.manifest # "readable") =>
        /\ local_games_last.raised = "none"
        /\ local_games_object.constructed
        /\ local_games_object.local_games = Some(<<>>)

\* The entries of the manifest that stand for a game: with an offer id and
\* the software id of a game.
GameEntries ==
    {i \in DOMAIN install_infos :
        /\ install_infos[i].offerId # Nil
        /\ IsGameSoftware(install_infos[i].softwareId)}

\* The entry is installed: an executable path and a complete install.
IsInstalled(game) == game.executablePath # NoPath /\ game.installStatus = "5"

\* C17 as stated: a pass classifies an entry Installed when it is installed
\* and no running process image path holds its executable name, Running when
\* it is installed and one does, and None when it has no usable executable
\* path.
C17_EntriesClassifiedByInstallAndProcess ==
    (/\ local_games_last.op = "update"
     /\ local_games_last.raised = "none"
     /\ local_games_last.manifest = "readable"
     /\ Len(install_infos) = 1
     /\ GameEntries = {1}) =>
        LET game == install_infos[1]
            games == local_games_object.local_games[1]
            running == /\ IsSubstring(<<".", "exe">>, game.executablePath)
                       /\ IsGameRunning(GameFolderName(game.executablePath),
                                        running_processes)
        IN  IF ~IsInstalled(game)
            THEN \A k \in DOMAIN games : games[k].local_game_state = "None_"
            ELSE games = <<LocalGame(game.offerId[1],
                                     IF running THEN "Running" ELSE "Installed")>>

-----------------------------------------------------------------------------
(* The persistent cache.                                                   *)

\* The keys the legacy-key migration rule removes: a bare offer id that is
\* also the offer id of a key with a store suffix.
LegacyKeys(cache) ==
    {k \in DOMAIN cache :
        /\ ~Contains(k, "@")
        /\ \E other \in DOMAIN cache :
               Contains(other, "@") /\ SubSeq(other, 1, Len(k)) = k
                   /\ other[Len(k) + 1] = "@"}

-----------------------------------------------------------------------------
(* The cookie jar.                                                         *)

\* C19: an update_cookies call that changes the jar while a callback is
\* registered invokes the callback exactly once, with the whole jar: every
\* cookie held before and every cookie of the call, one per name, a new
\* value taking the place of the old.
C19_CallbackGetsWholeJar ==
    \A c \in Callers :
        (/\ pc[c] # "idle"
         /\ op[c].name = "authenticate"
         /\ cookies_updated_callback
         /\ cookie_jar # op[c].jar0) =>
            /\ Count(trace[c], "cookies_updated") = 1
            /\ stored_cookies = Some(cookie_jar)
            /\ DOMAIN stored_cookies[1] = DOMAIN op[c].jar0 \cup DOMAIN op[c].cookies
            /\ \A n \in DOMAIN stored_cookies[1] :
                   stored_cookies[1][n] =
                       IF n \in DOMAIN op[c].cookies THEN op[c].cookies[n]
                       ELSE op[c].jar0[n]

\* A jar that held sid gets utag_main: the callback got both.
C19_Witness ==
    \E c \in Callers :
        /\ pc[c] # "idle"
        /\ op[c].name = "authenticate"
        /\ DOMAIN op[c].jar0 = {"sid"}
        /\ DOMAIN op[c].cookies = {"utag_main"}
        /\ stored_cookies # Nil
        /\ DOMAIN stored_cookies[1] = {"sid", "utag_main"}

-----------------------------------------------------------------------------
(* The gathered gets, checked under SpecGathered.                          *)

\* The gets whose _refresh_token has its token request in flight.
Refreshing == {c \in DOMAIN pc : pc[c] \in {"get_refresh", "authenticate_token"}}

\* C20: at any time at most one _refresh_token/_get_access_token is in
\* flight, the gathered gets of a batched offer fetch with an expired token
\* included.
C20_AtMostOneRefreshInFlight == Cardinality(Refreshing) <= 1

-----------------------------------------------------------------------------
(* The parsing of the entitlements, checked under SpecEntitlements.        *)

\* The body is no JSON or lacks the path data.me.ownedGameProducts.items.
Malformed(body, keys) == ~body.json \/ body.path # keys

\* C21: on a body that is no JSON or lacks data.me.ownedGameProducts.items,
\* get_entitlements logs the payload and then raises UnknownBackendResponse,
\* and no other error.
C21_MalformedEntitlementsLoggedThenRaised ==
    (backend_result # Nil /\ Malformed(backend_response, EntitlementsPath)) =>
        /\ backend_result[1].raised = "UnknownBackendResponse"
        /\ backend_result[1].logged # <<>>

-----------------------------------------------------------------------------
(* The achievements context, checked under SpecContext.                    *)

\* The fetch of the set or of the achievements of game i failed.
FailedGame(batch, i) ==
    batch[i].set \in ContextFailures \/ batch[i].achievements \in ContextFailures

\* C22: a failure while fetching the achievement set or the achievements of
\* one game is isolated: the context is built, without that game and with
\* every other game of the batch that has a set.
C22_FailedGameIsolated ==
    context_result # Nil =>
        /\ context_result[1].raised = "none"
        /\ \A i \in DOMAIN context_batch :
               LET offer == OfferIdFromGameId(BatchGameIds[i])
               IN  IF FailedGame(context_batch, i)
                   THEN offer \notin DOMAIN context_result[1].owned_games
                   ELSE context_batch[i].set = "ok" =>
                            offer \in DOMAIN context_result[1].owned_games

-----------------------------------------------------------------------------
(* The token of the redirect, checked under Spec.                          *)

\* The fragment of a redirect target: what follows its first `#'.
Fragment(loc) ==
    IF \A i \in DOMAIN loc : loc[i] # "#" THEN <<>>
    ELSE LET i == CHOOSE k \in DOMAIN loc : loc[k] = "#" /\ \A j \in 1..(k-1) : loc[j] # "#"
         IN  SubSeq(loc, i + 1, Len(loc))

\* Where the fragment names access_token and its `='.
TokenAt(frag) ==
    {i \in 1..(Len(frag) - 1) : frag[i] = "access_token" /\ frag[i+1] = "="}

\* The value of access_token: what follows its `=' up to the next `&' or
\* the end.
FragmentToken(frag) ==
    LET i == CHOOSE k \in TokenAt(frag) : \A j \in TokenAt(frag) : k <= j
    IN  Split(SubSeq(frag, i + 2, Len(frag)), "&")[1]

\* C23: after a token request whose redirect target holds access_token=<value>
\* in its fragment, the token held is <value>, wherever access_token stands
\* among the parameters of the fragment.
C23_TokenIsFragmentValue ==
    \A c \in Callers :
        (/\ pc[c] = "done"
         /\ response[c].location # Nil
         /\ TokenAt(Fragment(response[c].location[1])) # {}) =>
            access_token = Some(FragmentToken(Fragment(response[c].location[1])))

-----------------------------------------------------------------------------
(* The life of the token, checked under Spec.                              *)

\* The step ends the refresh of c, which failed for a reason that is not
\* transient.
RefreshFailedForGood(c) ==
    /\ pc[c] = "get_refresh"
    /\ pc'[c] = "done"
    /\ op'[c].refresh \notin RefreshReraised \cup {"ok"}

\* The step ends a token request of c whose redirect gave a token.
TokenAcquired(c) ==
    /\ pc[c] \in {"authenticate_token", "get_refresh"}
    /\ pc'[c] # pc[c]
    /\ response'[c].location # Nil
    /\ Contains(response'[c].location[1], "access_token")
    /\ GetAccessToken(response'[c]).raised = "none"

\* The step ends an authenticate that failed, a refresh that failed for a
\* transient reason, a token request answered with a redirect that has
\* neither a token nor login_required, or an authorized request that failed.
LeavesTokenAlone(c) ==
    \/ pc[c] = "authenticate_token" /\ pc'[c] = "done" /\ result'[c] # "ok"
    \/ pc[c] = "get_refresh" /\ pc'[c] = "done" /\ op'[c].refresh \in RefreshReraised
    \/ /\ pc[c] \in {"authenticate_token", "get_refresh"}
       /\ pc'[c] # pc[c]
       /\ response'[c].location # Nil
       /\ ~Contains(response'[c].location[1], "access_token")
       /\ ~ContainsPair(response'[c].location[1], "error", "login_required")
    \/ pc[c] = "get_first" /\ op'[c].first # "ok"
    \/ pc[c] = "get_retry" /\ op'[c].retry # "ok"

\* C24: a held token becomes absent only in a refresh that failed for a
\* reason that is not transient, and changes otherwise only when a token
\* request gave a token; a failed authenticate, a transient failure of a
\* refresh, a redirect without token or login_required and a failed request
\* leave a held token as it is.
C24_TokenStep ==
    /\ (access_token # Nil /\ access_token' = Nil) =>
           \E c \in Callers : RefreshFailedForGood(c)
    /\ (access_token # Nil /\ access_token' # access_token) =>
           \E c \in Callers : RefreshFailedForGood(c) \/ TokenAcquired(c)
    /\ \A c \in Callers :
           (access_token # Nil /\ LeavesTokenAlone(c)) => access_token' = access_token
C24_TokenClearedOnlyByFailedRefresh == [][C24_TokenStep]_vars

\* A get that started with a token ended without one, its refresh having
\* failed for good.
C24_Witness ==
    \E c \in Callers :
        /\ pc[c] = "done"
        /\ op[c].name = "get"
        /\ op[c].token0 # Nil
        /\ op[c].refresh \notin RefreshReraised \cup {"ok", "none"}
        /\ access_token = Nil
        /\ result[c] = "AccessDenied"

-----------------------------------------------------------------------------
(* The key of a fetched offer, checked under SpecOffers.                   *)

\* The fetches of the call that gave usable data reported under id.
ReportedAs(id) ==
    {i \in DOMAIN offers_call.outcomes :
        /\ Usable(offers_call.outcomes, i)
        /\ offers_call.outcomes[i].product[1].originOfferId = id}

\* What the loop stores for fetch i: the first part of the pair, with the
\* game slug of the second.
StoredOffer(i) ==
    [offerId |-> offers_call.outcomes[i].legacy[1].offerId,
     gameSlug |-> offers_call.outcomes[i].product[1].gameSlug]

\* C25: a fetched offer is cached and returned under the offer id its
\* response reports (the last fetch of the batch that reports an id gives
\* the entry of that id); an id that was asked for and that no response of
\* the batch reports gets no entry, in the cache or in the result.
C25_KeyedByReportedId ==
    offers_call.pc = "done" =>
        /\ \A i \in DOMAIN offers_call.outcomes :
               Usable(offers_call.outcomes, i) =>
                   LET id == offers_call.outcomes[i].product[1].originOfferId
                       last == CHOOSE j \in ReportedAs(id) : \A k \in ReportedAs(id) : k <= j
                   IN  /\ id \in DOMAIN offer_id_cache
                       /\ id \in DOMAIN offers_call.offers
                       /\ offer_id_cache[id] = StoredOffer(last)
                       /\ offers_call.offers[id] = StoredOffer(last)
        /\ \A i \in DOMAIN offers_call.outcomes :
               ReportedAs(offers_call.missing[i]) = {} =>
                   /\ offers_call.missing[i] \notin DOMAIN offer_id_cache
                   /\ offers_call.missing[i] \notin DOMAIN offers_call.offers

\* OFR1 was asked for and reported as OFR2: OFR2 has the entry, OFR1 none.
C25_Witness ==
    /\ offers_call.pc = "done"
    /\ offers_call.missing = <<"OFR1">>
    /\ Usable(offers_call.outcomes, 1)
    /\ offers_call.outcomes[1].product[1].originOfferId = "OFR2"
    /\ DOMAIN offer_id_cache = {"OFR2"}
    /\ DOMAIN offers_call.offers = {"OFR2"}
    /\ offer_id_cache["OFR2"].offerId = "OFR1"

-----------------------------------------------------------------------------
(* The deferred flush of the play-time cache, checked under SpecGameTime.  *)

\* The step ends a fetch of the play time that gave a record.
Refetched ==
    /\ game_time_call.pc = "fetch"
    /\ game_time_call'.pc = "done"
    /\ game_time_call'.result = "ok"

\* C26: a refetch stores the fetched record under the game id asked for and
\* marks the cache as updated, without pushing it; the cache is pushed only
\* by game_times_import_complete on a cache marked as updated, which pushes
\* the whole cache and takes the mark off.
C26_FlushStep ==
    /\ Refetched =>
           /\ game_time_call.game_id \in DOMAIN game_time_cache'
           /\ game_time_call'.returned = Some(game_time_cache'[game_time_call.game_id])
           /\ game_time_cache'[game_time_call.game_id].game_id = game_time_call.game_id
           /\ persistent_cache_updated'
           /\ galaxy_store' = galaxy_store
    /\ galaxy_store' # galaxy_store =>
           persistent_cache_updated /\ ~persistent_cache_updated'
    /\ (persistent_cache_updated /\ ~persistent_cache_updated') =>
           /\ galaxy_store' = Some(EncodeCaches(offer_id_cache, game_time_cache))
           /\ game_time_cache' = game_time_cache
C26_RefetchMarksImportCompleteFlushes == [][C26_FlushStep]_vars

\* A record was fetched and then pushed: the host holds it and the mark is
\* off.
C26_Witness ==
    /\ ~persistent_cache_updated
    /\ galaxy_store # Nil
    /\ game_time_cache # EmptyCache
    /\ galaxy_store = Some(EncodeCaches(offer_id_cache, game_time_cache))

-----------------------------------------------------------------------------
(* The play time in minutes, checked under SpecBackendGameTime.            *)

\* C27: get_game_time gives for s seconds the whole number m of minutes
\* nearest to s / 60, so that |60 * m - s| <= 30, and for an empty list of
\* recent games 0 minutes with no last-played time.
C27_MinutesRoundedToNearest ==
    (backend_result # Nil /\ backend_response.json
         /\ backend_response.path = RecentGamesPath /\ backend_response.leaf = "list") =>
        IF backend_response.items = <<>>
        THEN backend_result[1] =
                 BackendResult("none", Some([time_played |-> 0, last_played_time |-> Nil]), <<>>)
        ELSE backend_result[1].raised = "none" =>
                 LET s == backend_response.items[1].totalPlayTimeSeconds
                     minutes == backend_result[1].value[1].time_played
                 IN  /\ minutes \in Nat
                     /\ 60 * minutes - s <= 30
                     /\ s - 60 * minutes <= 30

\* 150 seconds, half-way between two and three minutes, gave two minutes.
C27_Witness ==
    /\ backend_result # Nil
    /\ backend_response.items # <<>>
    /\ backend_response.items[1].totalPlayTimeSeconds = 150
    /\ backend_result[1].raised = "none"
    /\ backend_result[1].value[1].time_played = 2

-----------------------------------------------------------------------------
(* The loading of the stored caches, checked under SpecReload.             *)

\* The play-time cache the host held, when its text is JSON.
StoredGameTime == JsonLoads(galaxy_store[1].game_time)

\* The play-time cache was decoded, and the decoder raised nothing.
GameTimeLoaded ==
    /\ reloaded # Nil
    /\ galaxy_store[1].game_time.kind = "json"
    /\ "game_time" \notin reloaded[1].logged

\* C28: once the play-time cache is loaded, no entry under a bare offer id
\* is left for an offer that has an entry under offerId@store, and every
\* other entry that is not empty is there with its game id, its minutes
\* played and its last-played time.
C28_LegacyKeysPurgedOthersKept ==
    GameTimeLoaded =>
        /\ DOMAIN reloaded[1].game_time \cap LegacyKeys(StoredGameTime) = {}
        /\ \A k \in DOMAIN StoredGameTime \ LegacyKeys(StoredGameTime) :
               DOMAIN StoredGameTime[k] # {} =>
                   /\ k \in DOMAIN reloaded[1].game_time
                   /\ reloaded[1].game_time[k].game_id = StoredGameTime[k].game_id
                   /\ reloaded[1].game_time[k].time_played = StoredGameTime[k].time_played
                   /\ reloaded[1].game_time[k].last_played_time =
                          GetLastPlayedTime(StoredGameTime[k])

\* OFR1 and OFR1@steam were both stored, with OFR2@epic: OFR1 is gone, the
\* two others are there.
C28_Witness ==
    /\ GameTimeLoaded
    /\ DOMAIN StoredGameTime = PersistedGameIds
    /\ \A k \in PersistedGameIds : "time_played" \in DOMAIN StoredGameTime[k]
    /\ "last_played_time" \in DOMAIN StoredGameTime[<<"OFR2", "@", "epic">>]
    /\ DOMAIN reloaded[1].game_time = PersistedGameIds \ {<<"OFR1">>}

\* A stored play-time entry with all a GameTime needs.
ValidEntry(entry) == {"game_id", "time_played"} \subseteq DOMAIN entry

\* C29: a stored cache that is empty or cannot be read loads as an empty
\* cache; of a stored play-time cache the entries that cannot be decoded are
\* dropped, with a logged message, and the valid ones are kept; and each of
\* the two caches loads whatever the other holds.
C29_CorruptEntriesDroppedValidKept ==
    reloaded # Nil =>
        /\ \A key \in {"offers", "game_time"} :
               galaxy_store[1][key].kind # "json" => reloaded[1][key] = EmptyCache
        /\ galaxy_store[1].offers.kind = "json" =>
               reloaded[1].offers = JsonLoads(galaxy_store[1].offers)
        /\ galaxy_store[1].game_time.kind = "json" =>
               \A k \in DOMAIN StoredGameTime \ LegacyKeys(StoredGameTime) :
                   /\ ValidEntry(StoredGameTime[k]) => k \in DOMAIN reloaded[1].game_time
                   /\ (DOMAIN StoredGameTime[k] # {} /\ ~ValidEntry(StoredGameTime[k])) =>
                          /\ k \notin DOMAIN reloaded[1].game_time
                          /\ "game_time" \in reloaded[1].logged

-----------------------------------------------------------------------------
(* The notifications of a pass, checked under SpecNotify.                  *)

\* The notifications of the pass that carry game id and state of entry.
Notified(entry) ==
    {i \in DOMAIN pass_result[1].notifications : pass_result[1].notifications[i] = entry}

\* Every entry of the diff was notified once, and nothing else was.
EveryChangeNotifiedOnce ==
    /\ Len(pass_result[1].notifications) = Len(changes[1])
    /\ \A i \in DOMAIN changes[1] : Cardinality(Notified(changes[1][i])) = 1

\* C30 as stated: every entry of the diff of a pass gives exactly one
\* update_local_game_status with its game id and new state, whether tick or
\* get_local_games started the pass.
C30_EveryPassNotifiesEveryChange ==
    pass_result # Nil => EveryChangeNotifiedOnce

\* C30: every entry of the diff of a pass started by tick gives exactly one
\* update_local_game_status with its game id and new state; a pass started
\* by get_local_games notifies nothing and returns the new list.
C30_TickPassNotifiesEveryChange ==
    pass_result # Nil =>
        IF pass_origin = "tick"
        THEN EveryChangeNotifiedOnce
        ELSE /\ pass_result[1].notifications = <<>>
             /\ pass_result[1].returned = Some(new_list)

\* A pass of tick found two changes, A removed and B now running, and
\* notified both.
C30_Witness ==
    /\ pass_result # Nil
    /\ pass_origin = "tick"
    /\ Len(changes[1]) = 2
    /\ Cardinality(Notified(LocalGame("A", "None_"))) = 1
    /\ Cardinality(Notified(LocalGame("B", "Running"))) = 1

-----------------------------------------------------------------------------
(* The removed games of a pass, checked under SpecLocal.                   *)

\* C31: after a LocalGames.update that returned, every game id of the
\* snapshot before the call that is not in the snapshot after it is in the
\* notify list as (id, None), also when is_with_offer.json was gone at the
\* call.
C31_RemovedIdsNotified ==
    (/\ local_games_last.op = "update"
     /\ local_games_last.raised = "none"
     /\ local_games_last.before # Nil) =>
        \A id \in Ids(local_games_last.before[1]) \ Ids(local_games_object.local_games[1]) :
            \E i \in DOMAIN local_games_last.notify :
                local_games_last.notify[i] = LocalGame(id, "None_")

-----------------------------------------------------------------------------
(* The passes in flight and the failed pass, checked under SpecSched.      *)

\* The passes whose LocalGames.update is with the executor.
InFlight == {p \in DOMAIN passes : passes[p].state = "running"}

\* C32: at any time at most one LocalGames.update is in flight, whether the
\* passes were launched by tick or by get_local_games.
C32_AtMostOneUpdateInFlight ==
    Cardinality(InFlight) <= 1

\* C33: the end of a pass whose LocalGames.update raised leaves the recorded
\* time of the last pass as it was and notifies nothing, so that a tick made
\* with the flag reset and no pass that returned in the last
\* LOCAL_GAMES_CACHE_VALID_PERIOD seconds launches a pass.
C33_FailedPassDoesNotRateLimit ==
    /\ [][\A p \in DOMAIN passes :
              (passes[p].state = "running" /\ passes'[p].state = "raised")
                  => /\ local_games_last_update' = local_games_last_update
                     /\ ~passes'[p].notified]_vars
    /\ [](\A p \in DOMAIN passes : passes[p].state = "raised" => ~passes[p].notified)
    /\ [](\A j \in Ticks :
              (/\ ~call_log[j].flag
               /\ \A p \in DOMAIN passes :
                      (p < call_log[j].pass \/ call_log[j].pass = 0)
                          => passes[p].state \in {"raised", "created", "running"})
                  => call_log[j].pass # 0)

\* A pass launched by a tick has raised, and a tick made one second after
\* its end has launched the next pass.
C33_Witness ==
    \E i, j \in Ticks :
        /\ i < j
        /\ call_log[i].pass # 0
        /\ passes[call_log[i].pass].state = "raised"
        /\ call_log[j].pass # 0
        /\ call_log[j].time - call_log[i].time < LOCAL_GAMES_CACHE_VALID_PERIOD

-----------------------------------------------------------------------------
(* The tokens of the gathered gets, checked under SpecGathered.            *)

\* The tokens the authorized requests of get c were sent with.
SentTokens(c) == {trace[c][i][2] : i \in {j \in DOMAIN trace[c] : trace[c][j][1] = "authorized_get"}}

\* C34: in every interleaving of the gathered gets and their token
\* refreshes, no authorized request is sent with an absent token in its
\* headers.
C34_NoRequestWithAbsentToken ==
    \A c \in DOMAIN trace : Nil \notin SentTokens(c)

-----------------------------------------------------------------------------
(* is_authenticated and the guard of get, checked under Spec.              *)

\* Get c found the token it started with falsy and raised AccessDenied at
\* once, with no request sent.
NoAccessToken(c) ==
    /\ op[c].name = "get"
    /\ pc[c] = "done"
    /\ trace[c] = <<>>
    /\ result[c] = "AccessDenied"

\* C35: a get called in a state where is_authenticated() is true (the token
\* is not None) does not fail with the immediate AccessDenied "No access
\* token", also after a redirect whose access_token value is empty.
C35_AuthenticatedGetPassesGuard ==
    \A c \in DOMAIN op :
        (op[c].name = "get" /\ op[c].token0 # Nil) => ~NoAccessToken(c)

-----------------------------------------------------------------------------
(* The entries of a diff, checked under SpecDiff.                          *)

\* C36: for any old and new lists, a new list that holds the same game id
\* more than once included, the result of get_state_changes holds at most
\* one entry per game id.
C36_OneEntryPerGameId ==
    changes # Nil =>
        \A i, j \in DOMAIN changes[1] :
            changes[1][i].game_id = changes[1][j].game_id => i = j

-----------------------------------------------------------------------------
(* The context of the game times, checked under SpecTimes.                 *)

\* C37: prepare_game_times_context, called while authenticated, raises
\* nothing of its own (a failure of the backend apart), also for game ids
\* whose offers the cache does not hold, and get_game_time then finds the
\* offer of each game of the batch in the cache.
C37_PrepareFetchesMissingOffers ==
    (times_context # Nil /\ is_authenticated) =>
        /\ times_context[1].raised \in {"none", "BackendError"}
        /\ \A i \in DOMAIN times_batch : game_time_lookup[i] # "UnknownError"

-----------------------------------------------------------------------------
(* The library settings, checked under SpecSettings.                       *)

\* C38: get_game_library_settings tags a game favorite, respectively
\* reports it hidden, if and only if the offer id that
\* _offer_id_from_game_id gives for its game id (the id without its @steam,
\* @epic or @subscription suffix) is in the favorite, respectively hidden,
\* set of the context.
C38_SettingsByOfferId ==
    settings_result # Nil =>
        /\ (settings_result[1].tags = <<"favorite">>)
               <=> (OfferIdFromGameId(settings_game_id) \in settings_context.favorite)
        /\ settings_result[1].hidden
               <=> (OfferIdFromGameId(settings_game_id) \in settings_context.hidden)

=============================================================================
